---------------------------- MODULE Spec2Model ----------------------------
(***************************************************************************)
(* Hot-potato survival game: the authoritative room simulation and room    *)
(* registry of src/server.js, and the client reconciliation of             *)
(* src/components/GameCanvas.tsx.                                          *)
(*                                                                         *)
(* Numbers.  Positions are integer pixels, time is integer milliseconds.   *)
(* The two speed factors the code keeps as floats (initialPotatoSpeed and  *)
(* potatoSpeedMultiplier) are kept in tenths.  Where the code divides or   *)
(* takes a square root the model rounds toward zero; every comparison the  *)
(* code makes on a distance is made here on the exact squared distance.    *)
(* Math.random() is a choice among the sample values named below.          *)
(***************************************************************************)
EXTENDS Integers, Sequences, FiniteSets, TLC

VARIABLES
    rooms,        \* the registry `rooms`: room id -> GameRoom
    roomOrder,    \* insertion order of the registry's keys (for..in order)
    socketRooms,  \* socket.rooms of each connection, without its own id
    connected,    \* connections that are open (an id is never reused)
    clock,        \* Date.now()
    lastTick,     \* the clock value of the tick driver's last run, -1 before
    emitted,      \* the events emitted by the last handler or tick
    spawned,      \* pickups created so far (bounds the run)
    cli           \* the client of one connection (GameCanvas refs)

vars == <<rooms, roomOrder, socketRooms, connected, clock, lastTick,
          emitted, spawned, cli>>

(***************************************************************************)
(* Program constants                                                       *)
(***************************************************************************)
CANVAS_WIDTH == 2000
CANVAS_HEIGHT == 2000
PLAYER_RADIUS == 25
POTATO_RADIUS == 20
POWERUP_RADIUS == 20
BASE_SPEED == 250
POTATO_SPEED == 230
SLIME_RADIUS == 80
MIN_OBSTACLE_GAP == 80
GRACE_MS == 3000
DEFAULT_MAX_PLAYERS == 12
MAX_LIVES == 3
DASH_COOLDOWN == 8000
SHIELD_COOLDOWN == 20000
SMOKE_COOLDOWN == 12000
SLIME_COOLDOWN == 15000
SHIELD_ACTIVE_ABOVE == 17000
SMOKE_ACTIVE_ABOVE == 7000
SLIME_DURATION == 3000
SLIME_FLOOR == 1000
DASH_DURATION == 300
SHIELD_FREEZE_MS == 1000
PICKUP_FREEZE_MS == 3000
SPEED_PICKUP_MS == 8000
GHOST_MS == 5000
PICKUP_SCORE == 50
MAX_POWERUPS == 5
MAX_POTATOES == 10
POTATO_SCORE_STEP == 500
SPAWN_ATTEMPTS == 50
SNAP_THRESHOLD == 50
INPUT_INTERVAL == 50

NULL == "null"

(***************************************************************************)
(* Bounds of the model                                                     *)
(***************************************************************************)
MaxClock == 9000       \* the clock stops advancing here
MaxSpawned == 1        \* pickups created per run

Sockets == {"s1", "s2"}

(***************************************************************************)
(* Arithmetic helpers                                                      *)
(***************************************************************************)
Max(a, b) == IF a >= b THEN a ELSE b
Min(a, b) == IF a <= b THEN a ELSE b
Abs(a) == IF a < 0 THEN -a ELSE a

\* Division rounding toward zero (the model's rounding of a float quotient).
Quot(a, b) == IF a >= 0 THEN a \div b ELSE -((-a) \div b)

RECURSIVE SqrtSearch(_, _, _)
SqrtSearch(n, lo, hi) ==
    IF lo >= hi THEN lo
    ELSE LET mid == (lo + hi + 1) \div 2
         IN IF mid * mid <= n THEN SqrtSearch(n, mid, hi)
            ELSE SqrtSearch(n, lo, mid - 1)

\* Math.sqrt, rounded down.
Sqrt(n) == SqrtSearch(n, 0, 4000)

DistSq(a, b) == (a.x - b.x) * (a.x - b.x) + (a.y - b.y) * (a.y - b.y)

Pt(px, py) == [x |-> px, y |-> py]

SeqToSet(s) == {s[i] : i \in 1..Len(s)}

(***************************************************************************)
(* Geometry                                                                *)
(***************************************************************************)
Rect(rx, ry, w, h) == [x |-> rx, y |-> ry, width |-> w, height |-> h]

\* The squared distance from (x, y) to the nearest point of the rectangle.
ClampDistSq(x, y, obs) ==
    LET testX == Max(obs.x, Min(x, obs.x + obs.width))
        testY == Max(obs.y, Min(y, obs.y + obs.height))
    IN (x - testX) * (x - testX) + (y - testY) * (y - testY)

InBounds(x, y, radius) ==
    ~(x < radius \/ x > CANVAS_WIDTH - radius
        \/ y < radius \/ y > CANVAS_HEIGHT - radius)

IsPositionValid(x, y, radius, obstacles) ==
    /\ InBounds(x, y, radius)
    /\ \A i \in 1..Len(obstacles) :
          ~(ClampDistSq(x, y, obstacles[i]) < radius * radius)

\* The point test of findSafeSpawn and updatePowerups: strictly inside.
PointInside(px, py, obs) ==
    px > obs.x /\ px < obs.x + obs.width /\ py > obs.y /\ py < obs.y + obs.height

PointSafe(p, obstacles) ==
    \A i \in 1..Len(obstacles) : ~PointInside(p.x, p.y, obstacles[i])

(***************************************************************************)
(* generateObstacles: the rectangles are random; a layout is accepted when *)
(* no rectangle starts in the centre exclusion zone and no two are closer  *)
(* than the gap.  The model draws the layout from ObstacleLayouts.         *)
(***************************************************************************)
ObsA == Rect(800, 50, 200, 200)

ObstacleLayouts == {<<ObsA>>}

TooClose(a, b) ==
    /\ a.x < b.x + b.width + MIN_OBSTACLE_GAP
    /\ a.x + a.width > b.x - MIN_OBSTACLE_GAP
    /\ a.y < b.y + b.height + MIN_OBSTACLE_GAP
    /\ a.y + a.height > b.y - MIN_OBSTACLE_GAP

GenerateObstacles ==
    {layout \in ObstacleLayouts :
        /\ \A i \in 1..Len(layout) :
              LET o == layout[i]
              IN /\ o.width >= 100 /\ o.width < 300
                 /\ o.height >= 100 /\ o.height < 300
                 /\ o.x >= 0 /\ o.x < CANVAS_WIDTH - o.width
                 /\ o.y >= 0 /\ o.y < CANVAS_HEIGHT - o.height
                 /\ ~(Abs(o.x - CANVAS_WIDTH \div 2) < 300
                        /\ Abs(o.y - CANVAS_HEIGHT \div 2) < 300)
        /\ \A i, j \in 1..Len(layout) : i < j => ~TooClose(layout[j], layout[i])}

(***************************************************************************)
(* findSafeSpawn: up to SPAWN_ATTEMPTS random points of                    *)
(* [100, 1900) x [100, 1900); the first one strictly inside no obstacle is *)
(* returned, and when every attempt fails the last one is.                 *)
(***************************************************************************)
SpawnSamples == {Pt(100, 100), Pt(790, 100)}

SpawnRange ==
    {p \in SpawnSamples :
        /\ p.x >= 100 /\ p.x < CANVAS_WIDTH - 100
        /\ p.y >= 100 /\ p.y < CANVAS_HEIGHT - 100}

\* The results possible from attempt number `attempts` on, `safe` and `unsafe`
\* being the samples that pass and fail the point test.
RECURSIVE SpawnAfter(_, _, _)
SpawnAfter(attempts, safe, unsafe) ==
    IF attempts >= SPAWN_ATTEMPTS THEN safe \cup unsafe
    ELSE IF unsafe = {} THEN safe
    ELSE safe \cup SpawnAfter(attempts + 1, safe, unsafe)

\* The set of positions findSafeSpawn can return.
FindSafeSpawn(obstacles) ==
    LET safe == {p \in SpawnRange : PointSafe(p, obstacles)}
    IN SpawnAfter(1, safe, SpawnRange \ safe)

(***************************************************************************)
(* Avatars, pursuers and rooms                                             *)
(***************************************************************************)
\* The index of the avatar `id` in the avatar table, 0 when absent.
IndexOf(players, id) ==
    IF \E i \in 1..Len(players) : players[i].id = id
    THEN CHOOSE i \in 1..Len(players) : players[i].id = id
    ELSE 0

RemoveAt(s, i) == SubSeq(s, 1, i - 1) \o SubSeq(s, i + 1, Len(s))

\* `ghostUntil` and `hitAt` are not fields of the code's object: the first
\* records the time at which the ghost status of the avatar's latest GHOST
\* pickup is due to end, the second the time of the avatar's latest hit that
\* was followed by a respawn (-1 before the first).
NewPlayer(socketId, pos) ==
    [id |-> socketId, position |-> pos, speed |-> BASE_SPEED, isDead |-> FALSE,
     score |-> 0, lives |-> MAX_LIVES, ping |-> 0,
     dashCooldown |-> 0, shieldCooldown |-> 0, smokeCooldown |-> 0,
     slimeCooldown |-> 0,
     isShielded |-> FALSE, isHidden |-> FALSE, isGhost |-> FALSE,
     isSilenced |-> FALSE, isSlowed |-> FALSE,
     speedBoostEndTime |-> 0, input |-> pos, ghostUntil |-> 0, hitAt |-> -1]

\* A pursuer; `speed` is in tenths of a pixel per second.
NewPotato(pos, speed10) ==
    [position |-> pos, speed |-> speed10, targetId |-> NULL,
     isFrozen |-> FALSE, freezeEndTime |-> 0]

\* GameRoom's constructor.  `potatoSpeed10` is the creator's potatoSpeed in
\* tenths; 0 stands for every falsy value.  `elimLog`, `contactLog`,
\* `ghostTimers`, `leftLog` and `collectLog` are not fields of the code's
\* object: the first two record what checkCollisions did (the avatars
\* eliminated in this round, the contacts of the last tick), the third holds
\* the pending setTimeout callbacks of line 516, the fourth records the avatars
\* removePlayer deleted, the last the pickups the last tick gave to avatars.
NewRoom(roomId, hostId, potatoSpeed10, maxPlayers, isPrivate, obstacles, now) ==
    LET init10 == IF potatoSpeed10 = 0 THEN 10 ELSE potatoSpeed10
    IN [id |-> roomId, hostId |-> hostId,
        initialPotatoSpeed |-> init10,
        maxPlayers |-> IF maxPlayers = 0 THEN DEFAULT_MAX_PLAYERS ELSE maxPlayers,
        isPrivate |-> isPrivate,
        players |-> <<>>,
        potatoes |-> <<NewPotato(Pt(100, 100), POTATO_SPEED * init10)>>,
        powerups |-> <<>>,
        obstacles |-> obstacles,
        slimeAreas |-> <<>>,
        state |-> "WAITING",
        lastUpdate |-> now,
        potatoSpeedMultiplier |-> 10,
        startTime |-> 0,
        gameEnded |-> FALSE,
        lastSurvivorId |-> NULL,
        elimLog |-> <<>>, contactLog |-> <<>>, ghostTimers |-> {},
        leftLog |-> <<>>, collectLog |-> <<>>]

\* addPlayer: assigning an existing key keeps its place in the table.
AddPlayer(room, socketId, pos) ==
    LET i == IndexOf(room.players, socketId)
    IN IF i = 0
       THEN [room EXCEPT !.players = Append(@, NewPlayer(socketId, pos))]
       ELSE [room EXCEPT !.players[i] = NewPlayer(socketId, pos)]

UpdatePlayerPing(room, socketId, ping) ==
    LET i == IndexOf(room.players, socketId)
    IN IF i = 0 THEN room ELSE [room EXCEPT !.players[i].ping = ping]

HostAfter_Unchanged(hostId, socketId, left) == hostId

\* The host after `socketId` has been deleted, `left` being the remaining
\* avatars (lines 174-180).
HostAfter(hostId, socketId, left) ==
    IF socketId = hostId /\ Len(left) > 0 THEN left[1].id ELSE hostId

\* removePlayer: the room after the removal and whether it is now empty.
RemovePlayer(room, socketId) ==
    LET i == IndexOf(room.players, socketId)
        left == IF i = 0 THEN room.players ELSE RemoveAt(room.players, i)
    IN [room |-> [room EXCEPT !.players = left,
                              !.hostId = HostAfter(room.hostId, socketId, left),
                              !.leftLog = IF i = 0 THEN @ ELSE Append(@, socketId)],
        empty |-> Len(left) = 0]

ResetPlayer_KeepsCooldowns(p, pos) ==
    [p EXCEPT !.position = pos, !.lives = MAX_LIVES, !.isDead = FALSE,
              !.score = 0, !.isSilenced = FALSE]

\* The reset of one avatar by startGame (lines 196-206).
ResetPlayer(p, pos) ==
    [p EXCEPT !.position = pos, !.lives = MAX_LIVES,
              !.isDead = FALSE, !.score = 0,
              !.slimeCooldown = 0, !.shieldCooldown = 0,
              !.dashCooldown = 0, !.smokeCooldown = 0,
              !.isSilenced = FALSE]

\* startGame; `spawns[i]` is the findSafeSpawn result of the i-th avatar.
StartGameRoom(room, spawns, now) ==
    [room EXCEPT
        !.state = "PLAYING",
        !.gameEnded = FALSE,
        !.lastUpdate = now,
        !.startTime = now,
        !.potatoSpeedMultiplier = room.initialPotatoSpeed,
        !.lastSurvivorId = NULL,
        !.players = [i \in 1..Len(room.players) |->
                        ResetPlayer(room.players[i], spawns[i])],
        !.potatoes = <<NewPotato(Pt(100, 100),
                                 POTATO_SPEED * room.initialPotatoSpeed)>>,
        !.slimeAreas = <<>>,
        !.powerups = <<>>,
        !.elimLog = <<>>, !.contactLog = <<>>, !.collectLog = <<>>]

AbilityReady_Always(cooldown) == TRUE

\* The cooldown test of each ability key (lines 541, 546-548).
AbilityReady(cooldown) == cooldown <= 0

\* handleInput; key "" stands for an input without a key.
HandleInput(room, socketId, x, y, key, now) ==
    LET i == IndexOf(room.players, socketId)
    IN IF i = 0 THEN room
       ELSE
         LET r1 == [room EXCEPT !.players[i].input = Pt(x, y)]
             p == r1.players[i]
         IN IF key = "" \/ p.isSilenced THEN r1
            ELSE IF key = "q" /\ AbilityReady(p.dashCooldown)
            THEN [r1 EXCEPT !.players[i].dashCooldown = DASH_COOLDOWN,
                            !.players[i].speedBoostEndTime = now + DASH_DURATION,
                            !.players[i].speed = (BASE_SPEED * 5) \div 2]
            ELSE IF key = "w" /\ AbilityReady(p.shieldCooldown)
            THEN [r1 EXCEPT !.players[i].shieldCooldown = SHIELD_COOLDOWN]
            ELSE IF key = "e" /\ AbilityReady(p.smokeCooldown)
            THEN [r1 EXCEPT !.players[i].smokeCooldown = SMOKE_COOLDOWN]
            ELSE IF key = "r" /\ AbilityReady(p.slimeCooldown)
            THEN [r1 EXCEPT !.players[i].slimeCooldown = SLIME_COOLDOWN,
                            !.slimeAreas = Append(@,
                                [ownerId |-> socketId, x |-> p.position.x,
                                 y |-> p.position.y, radius |-> SLIME_RADIUS,
                                 spawnTime |-> now, duration |-> SLIME_DURATION])]
            ELSE r1

(***************************************************************************)
(* GameRoom.update, phase 1: cooldowns, status, score, extra pursuers and  *)
(* move-and-slide, for one avatar.  `dt` is in milliseconds.               *)
(***************************************************************************)
InForeignSlime_OwnerToo(p, slime) ==
    DistSq(p.position, slime) < slime.radius * slime.radius

InForeignSlime(p, slime) ==
    /\ DistSq(p.position, slime) < slime.radius * slime.radius
    /\ p.id # slime.ownerId

RECURSIVE SlowedSpeed(_, _)
SlowedSpeed(moveSpeed, k) ==
    IF k = 0 THEN moveSpeed ELSE SlowedSpeed((moveSpeed * 3) \div 4, k - 1)

CoolDown_Unclamped(cooldown, dt) == cooldown - dt

\* A cooldown after dt milliseconds (lines 245-248).
CoolDown(cooldown, dt) == Max(0, cooldown - dt)

\* Cooldowns, derived flags and the slime interaction (lines 244-275).
StatusUpdate(p, slimeAreas, now, dt) ==
    LET shieldCd == CoolDown(p.shieldCooldown, dt)
        smokeCd == CoolDown(p.smokeCooldown, dt)
        base == IF now > p.speedBoostEndTime THEN BASE_SPEED ELSE p.speed
        k == Cardinality({n \in 1..Len(slimeAreas) : InForeignSlime(p, slimeAreas[n])})
    IN [p EXCEPT
          !.dashCooldown = CoolDown(p.dashCooldown, dt),
          !.slimeCooldown = CoolDown(p.slimeCooldown, dt),
          !.shieldCooldown = IF k > 0 THEN Max(shieldCd, SLIME_FLOOR) ELSE shieldCd,
          !.smokeCooldown = IF k > 0 THEN Max(smokeCd, SLIME_FLOOR) ELSE smokeCd,
          !.isShielded = (k = 0) /\ shieldCd > SHIELD_ACTIVE_ABOVE,
          !.isHidden = (k = 0) /\ smokeCd > SMOKE_ACTIVE_ABOVE,
          !.isSilenced = k > 0,
          !.isSlowed = k > 0,
          !.isGhost = IF k > 0 THEN FALSE ELSE p.isGhost,
          !.speedBoostEndTime = IF k > 0 THEN 0 ELSE p.speedBoostEndTime,
          !.speed = SlowedSpeed(base, k),
          !.score = p.score + dt \div 100]

StepVector_NoSnap(p, dt) ==
    LET dx == p.input.x - p.position.x
        dy == p.input.y - p.position.y
        dsq == dx * dx + dy * dy
        moveStep == (p.speed * dt) \div 1000
    IN IF dsq > 25
       THEN Pt(Quot(dx * moveStep, Sqrt(dsq)), Quot(dy * moveStep, Sqrt(dsq)))
       ELSE Pt(0, 0)

\* The step vector toward the input (lines 287-304).
StepVector(p, dt) ==
    LET dx == p.input.x - p.position.x
        dy == p.input.y - p.position.y
        dsq == dx * dx + dy * dy
        moveStep == (p.speed * dt) \div 1000
    IN IF dsq > 25
       THEN IF dsq < moveStep * moveStep
            THEN Pt(dx, dy)
            ELSE Pt(Quot(dx * moveStep, Sqrt(dsq)), Quot(dy * moveStep, Sqrt(dsq)))
       ELSE Pt(0, 0)

MoveAndSlide_AllOrNothing(pos, v, radius, obstacles) ==
    IF IsPositionValid(pos.x + v.x, pos.y + v.y, radius, obstacles)
    THEN Pt(pos.x + v.x, pos.y + v.y) ELSE pos

\* Try X, then try Y against the updated X (lines 306-323).
MoveAndSlide(pos, v, radius, obstacles) ==
    LET x1 == IF v.x # 0 /\ IsPositionValid(pos.x + v.x, pos.y, radius, obstacles)
              THEN pos.x + v.x ELSE pos.x
        y1 == IF v.y # 0 /\ IsPositionValid(x1, pos.y + v.y, radius, obstacles)
              THEN pos.y + v.y ELSE pos.y
    IN Pt(x1, y1)

UpdatePlayer(room, i, now, dt) ==
    LET p0 == room.players[i]
        p1 == StatusUpdate(p0, room.slimeAreas, now, dt)
        expected == 1 + p1.score \div POTATO_SCORE_STEP
        pots == IF Len(room.potatoes) < expected /\ Len(room.potatoes) < MAX_POTATOES
                THEN Append(room.potatoes, NewPotato(Pt(50, 50), POTATO_SPEED * 11))
                ELSE room.potatoes
        p2 == [p1 EXCEPT !.position =
                  MoveAndSlide(p1.position, StepVector(p1, dt), PLAYER_RADIUS,
                               room.obstacles)]
    IN IF p0.isDead THEN room
       ELSE [room EXCEPT !.players[i] = p2, !.potatoes = pots]

RECURSIVE UpdatePlayers(_, _, _, _)
UpdatePlayers(room, i, now, dt) ==
    IF i > Len(room.players) THEN room
    ELSE UpdatePlayers(UpdatePlayer(room, i, now, dt), i + 1, now, dt)

(***************************************************************************)
(* Phase 2: pairwise separation (lines 326-369).                           *)
(***************************************************************************)
PushIfValid_Unchecked(pos, nx, ny, obstacles) == Pt(nx, ny)

\* A push, each axis applied only if the result is valid (lines 352-366).
PushIfValid(pos, nx, ny, obstacles) ==
    LET x1 == IF IsPositionValid(nx, pos.y, PLAYER_RADIUS, obstacles) THEN nx ELSE pos.x
        y1 == IF IsPositionValid(x1, ny, PLAYER_RADIUS, obstacles) THEN ny ELSE pos.y
    IN Pt(x1, y1)

SeparatePair(room, i, j) ==
    LET p1 == room.players[i]
        p2 == room.players[j]
        dx == p2.position.x - p1.position.x
        dy == p2.position.y - p1.position.y
        dsq == dx * dx + dy * dy
        minDist == PLAYER_RADIUS + PLAYER_RADIUS
        dist == Sqrt(dsq)
        pushX == Quot(dx * (minDist - dist), 2 * dist)
        pushY == Quot(dy * (minDist - dist), 2 * dist)
    IN IF p1.isDead \/ p2.isDead \/ p1.isGhost \/ p2.isGhost THEN room
       ELSE IF dsq < minDist * minDist /\ dsq > 0
       THEN [room EXCEPT
               !.players[i].position =
                   PushIfValid(p1.position, p1.position.x - pushX,
                               p1.position.y - pushY, room.obstacles),
               !.players[j].position =
                   PushIfValid(p2.position, p2.position.x + pushX,
                               p2.position.y + pushY, room.obstacles)]
       ELSE room

RECURSIVE SeparateAll(_, _, _)
SeparateAll(room, i, j) ==
    IF i > Len(room.players) THEN room
    ELSE IF j > Len(room.players) THEN SeparateAll(room, i + 1, i + 2)
    ELSE SeparateAll(SeparatePair(room, i, j), i, j + 1)

(***************************************************************************)
(* Alive count, survivor tracking and the win check (lines 232-243,        *)
(* 371-398).                                                               *)
(***************************************************************************)
AliveIndexes(players) == {i \in 1..Len(players) : ~players[i].isDead}

AliveCount(players) == Cardinality(AliveIndexes(players))

PotentialWinner_DeadIncluded(players) ==
    IF Len(players) = 0 THEN NULL ELSE players[Len(players)].id

\* The id of the last avatar of the table that is not dead, or NULL.
PotentialWinner(players) ==
    IF AliveIndexes(players) = {} THEN NULL
    ELSE LET last == CHOOSE i \in AliveIndexes(players) :
                        \A k \in AliveIndexes(players) : k <= i
         IN players[last].id

\* sorted[0] of the stable sort by descending score, or NULL without avatars.
HighestScore(players) ==
    IF Len(players) = 0 THEN NULL
    ELSE LET first == CHOOSE i \in 1..Len(players) :
                         /\ \A k \in 1..Len(players) : players[k].score <= players[i].score
                         /\ \A k \in 1..(i - 1) : players[k].score < players[i].score
         IN players[first].id

FinalWinner_NoSurvivor(potentialWinner, lastSurvivorId, players) ==
    IF potentialWinner # NULL THEN potentialWinner ELSE HighestScore(players)

FinalWinner(potentialWinner, lastSurvivorId, players) ==
    IF potentialWinner # NULL THEN potentialWinner
    ELSE IF lastSurvivorId # NULL THEN lastSurvivorId
    ELSE HighestScore(players)

GraceOver_Inclusive(room, now) == now - room.startTime >= GRACE_MS

GraceOver(room, now) == now - room.startTime > GRACE_MS

(***************************************************************************)
(* Pursuers (lines 400-428).                                               *)
(***************************************************************************)
Targetable_HiddenToo(p) == ~p.isDead /\ ~p.isGhost

Targetable(p) == ~p.isDead /\ ~p.isHidden /\ ~p.isGhost

\* The index of the first targetable avatar at minimum distance, 0 if none.
NearestTarget(potato, players) ==
    LET cand == {i \in 1..Len(players) : Targetable(players[i])}
        d(i) == DistSq(players[i].position, potato.position)
    IN IF cand = {} THEN 0
       ELSE CHOOSE i \in cand :
               /\ \A k \in cand : d(i) <= d(k)
               /\ \A k \in cand : k < i => d(i) < d(k)

\* The position after one step toward `target`: the step is not validated.
PotatoStep(potato, target, mult10, dt, obstacles) ==
    LET dx == target.x - potato.position.x
        dy == target.y - potato.position.y
        dsq == dx * dx + dy * dy
        stepLen == (potato.speed * mult10 * dt) \div 100000
    IN IF dsq > 1
       THEN Pt(potato.position.x + Quot(dx * stepLen, Sqrt(dsq)),
               potato.position.y + Quot(dy * stepLen, Sqrt(dsq)))
       ELSE potato.position

UpdatePotato(room, potato, now, dt) ==
    LET thawed == IF potato.isFrozen /\ now > potato.freezeEndTime
                  THEN [potato EXCEPT !.isFrozen = FALSE] ELSE potato
        t == NearestTarget(thawed, room.players)
    IN IF thawed.isFrozen THEN thawed
       ELSE IF t = 0 THEN [thawed EXCEPT !.targetId = NULL]
       ELSE [thawed EXCEPT
               !.targetId = room.players[t].id,
               !.position = PotatoStep(thawed, room.players[t].position,
                                       room.potatoSpeedMultiplier, dt,
                                       room.obstacles)]

UpdatePotatoes(room, now, dt) ==
    [room EXCEPT !.potatoes =
        [q \in 1..Len(room.potatoes) |-> UpdatePotato(room, room.potatoes[q], now, dt)]]

(***************************************************************************)
(* updatePowerups (lines 440-472): with probability 0.005, and below the   *)
(* cap, one pickup of a random type at a random point that is strictly     *)
(* inside no obstacle.  `offer` is the set of [type, position] draws the   *)
(* random source may make in this tick.                                    *)
(***************************************************************************)
PowerupTypes == {"SPEED", "COOLDOWN_RESET", "GHOST", "MAGNET", "FREEZE", "DOUBLE_POINTS"}

UpdatePowerups_NoCap(room, offer, now) ==
    {room} \cup
    {[room EXCEPT !.powerups = Append(@,
          [type |-> o.type, position |-> o.position, spawnTime |-> now])] :
      o \in {o \in offer : /\ o.type \in PowerupTypes
                           /\ o.position \in SpawnRange
                           /\ PointSafe(o.position, room.obstacles)}}

UpdatePowerups(room, offer, now) ==
    {room} \cup
    (IF Len(room.powerups) < MAX_POWERUPS
     THEN {[room EXCEPT !.powerups = Append(@,
               [type |-> o.type, position |-> o.position, spawnTime |-> now])] :
           o \in {o \in offer : /\ o.type \in PowerupTypes
                                /\ o.position \in SpawnRange
                                /\ PointSafe(o.position, room.obstacles)}}
     ELSE {})

(***************************************************************************)
(* checkCollisions (lines 474-527).                                        *)
(***************************************************************************)
InContact(a, b, reach) == DistSq(a, b) < reach * reach

\* One pursuer against one living avatar (lines 480-498); the set of results,
\* one per position findSafeSpawn can return.
NoLivesLeft_OnlyBelowZero(lives) == lives < 0

TakesLife_IgnoreFrozen(p, potato) == ~p.isGhost

\* The condition of the damage branch (line 487).
TakesLife(p, potato) == ~potato.isFrozen /\ ~p.isGhost

\* The elimination test after the decrement (line 489).
NoLivesLeft(lives) == lives <= 0

ContactAlive(room, q, i, now) ==
    LET p == room.players[i]
        potato == room.potatoes[q]
        entry(la, fa) ==
            [potato |-> q, player |-> p.id, shielded |-> p.isShielded,
             ghost |-> p.isGhost, frozenBefore |-> potato.isFrozen,
             livesBefore |-> p.lives, livesAfter |-> la, frozenAfter |-> fa,
             silenced |-> p.isSilenced, shieldCooldown |-> p.shieldCooldown,
             hitAt |-> p.hitAt]
    IN IF ~InContact(p.position, potato.position, PLAYER_RADIUS + POTATO_RADIUS)
       THEN {room}
       ELSE IF p.isShielded
       THEN {[room EXCEPT
                !.potatoes[q].isFrozen = TRUE,
                !.potatoes[q].freezeEndTime =
                    IF potato.isFrozen THEN @ ELSE now + SHIELD_FREEZE_MS,
                !.contactLog = Append(@, entry(p.lives, TRUE))]}
       ELSE IF TakesLife(p, potato)
       THEN IF NoLivesLeft(p.lives - 1)
            THEN {[room EXCEPT
                     !.players[i].lives = p.lives - 1,
                     !.players[i].isDead = TRUE,
                     !.potatoSpeedMultiplier = @ + 1,
                     !.elimLog = Append(@, p.id),
                     !.contactLog = Append(@, entry(p.lives - 1, potato.isFrozen))]}
            ELSE {[room EXCEPT
                     !.players[i].lives = p.lives - 1,
                     !.players[i].position = pos,
                     !.players[i].shieldCooldown = SHIELD_COOLDOWN,
                     !.players[i].hitAt = now,
                     !.contactLog = Append(@, entry(p.lives - 1, potato.isFrozen))] :
                  pos \in FindSafeSpawn(room.obstacles)}
       ELSE {[room EXCEPT !.contactLog = Append(@, entry(p.lives, potato.isFrozen))]}

Contact_NoDeadCheck(room, q, i, now) == ContactAlive(room, q, i, now)

Contact(room, q, i, now) ==
    IF room.players[i].isDead THEN {room}
    ELSE ContactAlive(room, q, i, now)

\* The pursuer-avatar loops: pursuer q = 1.., and for each every avatar i.
RECURSIVE PotatoContacts(_, _, _, _)
PotatoContacts(room, q, i, now) ==
    IF q > Len(room.potatoes) THEN {room}
    ELSE IF i > Len(room.players) THEN PotatoContacts(room, q + 1, 1, now)
    ELSE UNION {PotatoContacts(r, q, i + 1, now) : r \in Contact(room, q, i, now)}

\* The effect of a collected pickup on avatar i (lines 509-522).
Collect(room, i, pu, now) ==
    LET r1 == [room EXCEPT !.players[i].score = @ + PICKUP_SCORE,
                           !.collectLog = Append(@, [pickup |-> pu,
                                                     id |-> room.players[i].id])]
        p == r1.players[i]
    IN CASE pu.type = "SPEED" ->
              [r1 EXCEPT !.players[i].speedBoostEndTime = now + SPEED_PICKUP_MS,
                         !.players[i].speed = (BASE_SPEED * 3) \div 2]
         [] pu.type = "COOLDOWN_RESET" ->
              [r1 EXCEPT !.players[i].dashCooldown = 0,
                         !.players[i].shieldCooldown = 0,
                         !.players[i].smokeCooldown = 0,
                         !.players[i].slimeCooldown = 0]
         [] pu.type = "FREEZE" ->
              [r1 EXCEPT !.potatoes =
                  [q \in 1..Len(r1.potatoes) |->
                      [r1.potatoes[q] EXCEPT !.isFrozen = TRUE,
                                             !.freezeEndTime = now + PICKUP_FREEZE_MS]]]
         [] pu.type = "GHOST" ->
              [r1 EXCEPT !.players[i].isGhost = TRUE,
                         !.players[i].ghostUntil = now + GHOST_MS,
                         !.ghostTimers = @ \cup {[id |-> p.id, due |-> now + GHOST_MS]}]
         [] OTHER -> r1

Touches(p, pu) ==
    ~p.isDead /\ InContact(p.position, pu.position, PLAYER_RADIUS + POWERUP_RADIUS)

\* Every living avatar in contact with pickup `pu`, in table order.
RECURSIVE CollectBy(_, _, _, _)
CollectBy(room, i, pu, now) ==
    IF i > Len(room.players) THEN room
    ELSE CollectBy(IF Touches(room.players[i], pu) THEN Collect(room, i, pu, now)
                   ELSE room, i + 1, pu, now)

\* The filter over the pickups `pending`; `kept` are those not collected.
RECURSIVE CollectPowerups(_, _, _, _)
CollectPowerups(room, pending, kept, now) ==
    IF pending = <<>> THEN [room EXCEPT !.powerups = kept]
    ELSE LET pu == Head(pending)
             collected == \E i \in 1..Len(room.players) : Touches(room.players[i], pu)
         IN CollectPowerups(CollectBy(room, 1, pu, now), Tail(pending),
                            IF collected THEN kept ELSE Append(kept, pu), now)

CheckCollisions(room, now) ==
    IF room.gameEnded THEN {room}
    ELSE {CollectPowerups(r, r.powerups, <<>>, now) :
            r \in PotatoContacts(room, 1, 1, now)}

(***************************************************************************)
(* GameRoom.update: the set of [room, gameOver, winnerId] it can produce.  *)
(***************************************************************************)
NoResult == [gameOver |-> FALSE, winnerId |-> NULL]

WinCheck(r, aliveCount, now) == GraceOver(r, now) /\ ~r.gameEnded /\ aliveCount <= 1

Update(room, offer, now) ==
    IF room.state # "PLAYING" THEN {[room |-> room, made |-> 0, res |-> NoResult]}
    ELSE
      LET dt == now - room.lastUpdate
          r0 == [room EXCEPT
                   !.lastUpdate = now,
                   !.contactLog = <<>>,
                   !.collectLog = <<>>,
                   !.slimeAreas = SelectSeq(@, LAMBDA sl : now < sl.spawnTime + sl.duration)]
          aliveCount == AliveCount(r0.players)
          potentialWinner == PotentialWinner(r0.players)
          r1 == UpdatePlayers(r0, 1, now, dt)
          r2 == SeparateAll(r1, 1, 2)
          r3 == IF aliveCount = 1 THEN [r2 EXCEPT !.lastSurvivorId = potentialWinner]
                ELSE r2
      IN IF WinCheck(r3, aliveCount, now)
         THEN {[room |-> [r3 EXCEPT !.state = "GAME_OVER", !.gameEnded = TRUE],
                made |-> 0,
                res |-> [gameOver |-> TRUE,
                         winnerId |-> FinalWinner(potentialWinner, r3.lastSurvivorId,
                                                  r3.players)]]}
         ELSE IF ~r3.gameEnded
         THEN UNION {{[room |-> r6, made |-> Len(r5.powerups) - Len(r3.powerups),
                        res |-> NoResult] : r6 \in CheckCollisions(r5, now)} :
                       r5 \in UpdatePowerups(UpdatePotatoes(r3, now, dt), offer, now)}
         ELSE {[room |-> [r3 EXCEPT !.potatoes =
                             [q \in 1..Len(r3.potatoes) |->
                                 [r3.potatoes[q] EXCEPT !.targetId = NULL]]],
                made |-> 0, res |-> NoResult]}

(***************************************************************************)
(* Events                                                                  *)
(***************************************************************************)
Ids(players) == [i \in 1..Len(players) |-> players[i].id]

\* getActiveLobbies over a registry.
GetActiveLobbies(rs, order) ==
    LET pub == SelectSeq(order, LAMBDA rid : ~rs[rid].isPrivate)
    IN [k \in 1..Len(pub) |->
          [id |-> rs[pub[k]].id, players |-> Len(rs[pub[k]].players),
           maxPlayers |-> rs[pub[k]].maxPlayers, state |-> rs[pub[k]].state]]

EvRoomJoined(s, room, isHost) ==
    [type |-> "room_joined", to |-> s,
     data |-> [roomId |-> room.id, isHost |-> isHost, playerId |-> s]]
EvRoomUpdate(room) ==
    [type |-> "room_update", to |-> room.id,
     data |-> [players |-> Ids(room.players), hostId |-> room.hostId]]
EvLobbies(rs, order) ==
    [type |-> "lobbies_update", to |-> "*", data |-> GetActiveLobbies(rs, order)]
EvGameStateFull(s) ==
    [type |-> "game_state", to |-> s,
     data |-> {"players", "potatoes", "obstacles", "powerups", "slimeAreas"}]
\* The fields of the snapshot broadcast by the tick (lines 680-685).
TickSnapshotFields == {"players", "potatoes", "powerups", "slimeAreas"}

EvGameStateTick(room) ==
    [type |-> "game_state", to |-> room.id, data |-> TickSnapshotFields]
EvGameOver(room, winnerId) ==
    [type |-> "game_over", to |-> room.id,
     data |-> [winnerId |-> winnerId, players |-> Ids(room.players)]]
EvGameStarted(rid) == [type |-> "game_started", to |-> rid, data |-> <<>>]
EvError(s, message) == [type |-> "error", to |-> s, data |-> message]

Emitted(type) == {k \in 1..Len(emitted) : emitted[k].type = type}

(***************************************************************************)
(* The registry and the connections' handlers (lines 565-655).             *)
(***************************************************************************)
\* Array.from(socket.rooms).find(r => r !== socket.id)
RoomOf(s) == IF socketRooms[s] = <<>> THEN NULL ELSE socketRooms[s][1]

SocketJoin(s, rid) ==
    IF rid \in SeqToSet(socketRooms[s]) THEN socketRooms
    ELSE [socketRooms EXCEPT ![s] = Append(@, rid)]

PutRoom(rid, room) ==
    IF rid \in DOMAIN rooms THEN [rooms EXCEPT ![rid] = room]
    ELSE [r \in DOMAIN rooms \cup {rid} |-> IF r = rid THEN room ELSE rooms[r]]

\* A timer callback that is due runs before anything scheduled later.
NoOverdueTimer ==
    \A rid \in DOMAIN rooms : \A t \in rooms[rid].ghostTimers : t.due >= clock

CreateRoom(s, rid, potatoSpeed10, maxPlayers, isPrivate, obstacles, pos) ==
    LET room == AddPlayer(NewRoom(rid, s, potatoSpeed10, maxPlayers, isPrivate,
                                  obstacles, clock), s, pos)
        rs == PutRoom(rid, room)
        order == IF rid \in DOMAIN rooms THEN roomOrder ELSE Append(roomOrder, rid)
    IN /\ s \in connected
       /\ NoOverdueTimer
       /\ obstacles \in GenerateObstacles
       /\ pos \in FindSafeSpawn(obstacles)
       /\ rooms' = rs
       /\ roomOrder' = order
       /\ socketRooms' = SocketJoin(s, rid)
       /\ emitted' = <<EvRoomJoined(s, room, TRUE), EvRoomUpdate(room),
                       EvLobbies(rs, order), EvGameStateFull(s)>>
       /\ UNCHANGED <<connected, clock, lastTick, spawned, cli>>

RoomFull_Never(room) == FALSE

\* The capacity test of join_room (line 600).
RoomFull(room) == Len(room.players) >= room.maxPlayers

JoinRoom(s, rid, pos) ==
    /\ s \in connected
    /\ NoOverdueTimer
    /\ IF rid \in DOMAIN rooms /\ rooms[rid].state = "WAITING"
       THEN IF RoomFull(rooms[rid])
            THEN /\ emitted' = <<EvError(s, "Room is full!")>>
                 /\ UNCHANGED <<rooms, socketRooms>>
            ELSE LET room == AddPlayer(rooms[rid], s, pos)
                     rs == [rooms EXCEPT ![rid] = room]
                 IN /\ pos \in FindSafeSpawn(rooms[rid].obstacles)
                    /\ rooms' = rs
                    /\ socketRooms' = SocketJoin(s, rid)
                    /\ emitted' = <<EvRoomJoined(s, room, FALSE), EvRoomUpdate(room),
                                    EvLobbies(rs, roomOrder), EvGameStateFull(s)>>
       ELSE /\ emitted' = <<EvError(s, "Room not found or game already in progress")>>
            /\ UNCHANGED <<rooms, socketRooms>>
    /\ UNCHANGED <<roomOrder, connected, clock, lastTick, spawned, cli>>

MayStart_AnyMember(s, rid) == rid # NULL /\ rid \in DOMAIN rooms

\* The test of start_game (line 620).
MayStart(s, rid) == rid # NULL /\ rid \in DOMAIN rooms /\ rooms[rid].hostId = s

StartGame(s, spawns) ==
    LET rid == RoomOf(s)
    IN /\ s \in connected
       /\ NoOverdueTimer
       /\ IF MayStart(s, rid)
          THEN LET rs == [rooms EXCEPT ![rid] = StartGameRoom(rooms[rid], spawns, clock)]
               IN /\ Len(spawns) = Len(rooms[rid].players)
                  /\ rooms' = rs
                  /\ emitted' = <<EvGameStarted(rid), EvLobbies(rs, roomOrder)>>
                  /\ \A i \in 1..Len(spawns) :
                        spawns[i] \in FindSafeSpawn(rooms[rid].obstacles)
          ELSE /\ spawns = <<>>
               /\ emitted' = <<>>
               /\ UNCHANGED rooms
       /\ UNCHANGED <<roomOrder, socketRooms, connected, clock, lastTick,
                      spawned, cli>>

UpdatePing(s, ping) ==
    LET rid == RoomOf(s)
    IN /\ s \in connected
       /\ NoOverdueTimer
       /\ IF rid # NULL /\ rid \in DOMAIN rooms
          THEN LET room == UpdatePlayerPing(rooms[rid], s, ping)
               IN /\ rooms' = [rooms EXCEPT ![rid] = room]
                  /\ emitted' = IF room.state = "WAITING" THEN <<EvRoomUpdate(room)>>
                                ELSE <<>>
          ELSE /\ emitted' = <<>>
               /\ UNCHANGED rooms
       /\ UNCHANGED <<roomOrder, socketRooms, connected, clock, lastTick,
                      spawned, cli>>

Input(s, x, y, key) ==
    LET rid == RoomOf(s)
    IN /\ s \in connected
       /\ NoOverdueTimer
       /\ IF rid # NULL /\ rid \in DOMAIN rooms
          THEN rooms' = [rooms EXCEPT ![rid] = HandleInput(rooms[rid], s, x, y, key, clock)]
          ELSE UNCHANGED rooms
       /\ emitted' = <<>>
       /\ UNCHANGED <<roomOrder, socketRooms, connected, clock, lastTick,
                      spawned, cli>>

RoomsToLeave_FirstJoined(s, order) == SelectSeq(order, LAMBDA r : r = RoomOf(s))

\* The rooms the disconnect handler visits: every key of the registry
\* (line 647).
RoomsToLeave(s, order) == order

\* The disconnect handler's loop over the registry, from position k of the
\* keys it visits; `order` becomes the registry's key order after the deletions.
RECURSIVE DisconnectFrom(_, _, _, _, _)
DisconnectFrom(s, rs, order, k, evs) ==
    IF k > Len(RoomsToLeave(s, roomOrder))
    THEN [rooms |-> rs, order |-> order, evs |-> evs]
    ELSE LET rid == RoomsToLeave(s, roomOrder)[k]
             res == RemovePlayer(rs[rid], s)
         IN IF res.empty
            THEN DisconnectFrom(s, [r \in DOMAIN rs \ {rid} |-> rs[r]],
                                SelectSeq(order, LAMBDA r : r # rid), k + 1, evs)
            ELSE DisconnectFrom(s, [rs EXCEPT ![rid] = res.room], order, k + 1,
                                Append(evs, EvRoomUpdate(res.room)))

Disconnect(s) ==
    LET d == DisconnectFrom(s, rooms, roomOrder, 1, <<>>)
    IN /\ s \in connected
       /\ NoOverdueTimer
       /\ rooms' = d.rooms
       /\ roomOrder' = d.order
       /\ socketRooms' = [socketRooms EXCEPT ![s] = <<>>]
       /\ connected' = connected \ {s}
       /\ emitted' = Append(d.evs, EvLobbies(d.rooms, d.order))
       /\ UNCHANGED <<clock, lastTick, spawned, cli>>

(***************************************************************************)
(* The tick driver (lines 667-689) and the passing of time.                *)
(***************************************************************************)
BackToWaiting_StaysOver(room) == room

\* The driver's assignment after it has emitted game_over (line 678).
BackToWaiting(room) == [room EXCEPT !.state = "WAITING"]

\* The driver's loop from position k of the registry: the set of outcomes.
RECURSIVE TickFrom(_, _, _, _, _)
TickFrom(rs, k, evs, made, offer) ==
    IF k > Len(roomOrder) THEN {[rooms |-> rs, evs |-> evs, made |-> made]}
    ELSE LET rid == roomOrder[k]
             room == rs[rid]
         IN IF room.state = "PLAYING" \/ room.state = "GAME_OVER"
            THEN UNION {
                   IF u.res.gameOver
                   THEN TickFrom([rs EXCEPT ![rid] = BackToWaiting(u.room)],
                                 k + 1, Append(evs, EvGameOver(u.room, u.res.winnerId)),
                                 made + u.made, offer)
                   ELSE TickFrom([rs EXCEPT ![rid] = u.room], k + 1,
                                 Append(evs, EvGameStateTick(u.room)),
                                 made + u.made, offer)
                   : u \in Update(room, offer, clock)}
            ELSE TickFrom(rs, k + 1, evs, made, offer)

\* One run of the driver; pickups are drawn from `offer` until `max` exist.
TickDriverUpTo(offer, max) ==
    /\ clock > lastTick
    /\ NoOverdueTimer
    /\ \E t \in TickFrom(rooms, 1, <<>>, 0,
                         IF spawned < max THEN offer ELSE {}) :
          /\ rooms' = t.rooms
          /\ emitted' = t.evs
          /\ spawned' = spawned + t.made
    /\ lastTick' = clock
    /\ UNCHANGED <<roomOrder, socketRooms, connected, clock, cli>>

TickDriver(offer) == TickDriverUpTo(offer, MaxSpawned)

\* The interval timer has fired for the present instant; time moves on.
Elapse(d) ==
    /\ NoOverdueTimer
    /\ lastTick = clock
    /\ clock' = clock + d
    /\ emitted' = <<>>
    /\ UNCHANGED <<rooms, roomOrder, socketRooms, connected, lastTick, spawned, cli>>

\* The callback of the GHOST pickup's setTimeout (lines 516-520).
GhostTimeout(rid, t) ==
    /\ rid \in DOMAIN rooms
    /\ t \in rooms[rid].ghostTimers
    /\ t.due <= clock
    /\ LET i == IndexOf(rooms[rid].players, t.id)
           r1 == [rooms[rid] EXCEPT !.ghostTimers = @ \ {t}]
       IN rooms' = [rooms EXCEPT ![rid] =
                       IF i = 0 THEN r1 ELSE [r1 EXCEPT !.players[i].isGhost = FALSE]]
    /\ emitted' = <<>>
    /\ UNCHANGED <<roomOrder, socketRooms, connected, clock, lastTick, spawned, cli>>

(***************************************************************************)
(* The server with an empty registry and its connections open.             *)
(***************************************************************************)
(***************************************************************************)
(* The client in online mode (GameCanvas.tsx, App), for the connection     *)
(* `Me`.  Of a snapshot the client's own avatar and the hazard areas are   *)
(* kept.  JavaScript shares objects: `sameObject` says that the avatar in  *)
(* playersRef is the very object held in serverStateRef, `samePosition`    *)
(* that the two hold the same position object; a write through one is seen *)
(* through the other.  `reported` keeps the avatar as it was received.     *)
(* playersRef, serverStateRef, reported and last are lists, empty or of    *)
(* one element.                                                            *)
(***************************************************************************)
Me == "s1"

CliInit ==
    [gameState |-> "LOBBY", loop |-> "off", listening |-> FALSE,
     serverStateRef |-> <<>>, reported |-> <<>>, playersRef |-> <<>>,
     sameObject |-> FALSE, samePosition |-> FALSE,
     obstaclesRef |-> "list", slimeAreasRef |-> <<>>,
     mouseRef |-> Pt(CANVAS_WIDTH \div 2, CANVAS_HEIGHT \div 2),
     frames |-> 0, last |-> <<>>,
     lastInputTimeRef |-> 0, sentAt |-> <<>>, sentGap |-> -1]

\* socket.emit('input', ...) at time `now`.  `sentAt` and `sentGap` are not
\* refs of the code: the first is the list, empty or of one element, of the time
\* of the latest input message, the second the time between the latest two
\* (-1 while there are fewer).
EmitInput(c, now) ==
    [c EXCEPT !.sentAt = <<now>>,
              !.sentGap = IF c.sentAt = <<>> THEN -1 ELSE now - c.sentAt[1]]

\* The throttled input of gameLoop (lines 379-389).
ThrottledInput(c, now) ==
    IF now - c.lastInputTimeRef > INPUT_INTERVAL
    THEN [EmitInput(c, now) EXCEPT !.lastInputTimeRef = now]
    ELSE c

\* handleKeyDown in online mode (lines 1192-1198).
HandleKeyDown(c, key, now) ==
    IF c.gameState # "PLAYING" THEN c ELSE EmitInput(c, now)

\* The game_state listener of initGameOnline (lines 227-244).  obstaclesRef
\* takes state.obstacles, which is undefined when the snapshot has no such
\* field.
OnGameState(c, state) ==
    LET first == Len(c.playersRef) = 0
    IN [c EXCEPT
          !.serverStateRef = <<state.player>>,
          !.reported = <<state.player>>,
          !.obstaclesRef = IF "obstacles" \in state.fields THEN "list"
                           ELSE "undefined",
          !.slimeAreasRef = state.slimeAreas,
          !.playersRef = IF first THEN <<state.player>> ELSE @,
          !.sameObject = first,
          !.samePosition = first,
          !.last = <<>>]

\* isPositionValid on the client (lines 66-85): "throw" when the loop over
\* the obstacles is reached with obstaclesRef undefined.  The client's list
\* of obstacles, when it has one, is empty in online mode.
CliPositionValid(x, y, radius, obstaclesRef) ==
    IF ~InBounds(x, y, radius) THEN "false"
    ELSE IF obstaclesRef = "undefined" THEN "throw"
    ELSE "true"

\* applyMovement (lines 675-687): the avatar after the step and whether the
\* step threw.
ApplyMovement(p, v, obstaclesRef) ==
    LET okX == CliPositionValid(p.position.x + v.x, p.position.y, PLAYER_RADIUS,
                                obstaclesRef)
        x1 == IF okX = "true" THEN p.position.x + v.x ELSE p.position.x
        okY == CliPositionValid(x1, p.position.y + v.y, PLAYER_RADIUS, obstaclesRef)
        y1 == IF okY = "true" THEN p.position.y + v.y ELSE p.position.y
    IN IF okX = "throw" THEN [p |-> p, threw |-> TRUE]
       ELSE IF okY = "throw"
       THEN [p |-> [p EXCEPT !.position = Pt(x1, p.position.y)], threw |-> TRUE]
       ELSE [p |-> [p EXCEPT !.position = Pt(x1, y1)], threw |-> FALSE]

\* movePlayerToward for the client's own avatar (lines 638-661); the frame's
\* dt is 1/60 s, the step is rounded to whole pixels.
MovePlayerToward(p, target, obstaclesRef) ==
    LET dx == target.x - p.position.x
        dy == target.y - p.position.y
        dsq == dx * dx + dy * dy
        moveStep == p.speed \div 60
    IN IF dsq < 25 THEN [p |-> p, threw |-> FALSE]
       ELSE IF dsq < moveStep * moveStep
       THEN ApplyMovement(p, Pt(dx, dy), obstaclesRef)
       ELSE ApplyMovement(p, Pt(Quot(dx * moveStep, Sqrt(dsq)),
                                Quot(dy * moveStep, Sqrt(dsq))), obstaclesRef)

\* updatePhysics for the own avatar in online mode (lines 522-585):
\* cooldowns are not decremented, the status flags and the hazard floors
\* are written into the avatar object, then it moves toward the pointer.
UpdatePhysics(p, slimeAreas, now, mouse, obstaclesRef) ==
    IF p.isDead THEN [p |-> p, threw |-> FALSE]
    ELSE
      LET base == IF now > p.speedBoostEndTime THEN BASE_SPEED ELSE p.speed
          k == Cardinality({n \in 1..Len(slimeAreas) :
                               InForeignSlime(p, slimeAreas[n])})
          p1 == [p EXCEPT
                   !.isShielded = (k = 0) /\ p.shieldCooldown > SHIELD_ACTIVE_ABOVE,
                   !.isHidden = (k = 0) /\ p.smokeCooldown > SMOKE_ACTIVE_ABOVE,
                   !.isSilenced = k > 0,
                   !.isSlowed = k > 0,
                   !.speedBoostEndTime = IF k > 0 THEN 0 ELSE @,
                   !.shieldCooldown = IF k > 0 THEN Max(@, SLIME_FLOOR) ELSE @,
                   !.smokeCooldown = IF k > 0 THEN Max(@, SLIME_FLOOR) ELSE @,
                   !.isGhost = IF k > 0 THEN FALSE ELSE @,
                   !.speed = SlowedSpeed(base, k)]
      IN MovePlayerToward(p1, mouse, obstaclesRef)

\* applyOnlineInterpolation for the own avatar (lines 448-466).
ApplyOnlineInterpolation(currentP, targetP) ==
    IF DistSq(targetP.position, currentP.position) > SNAP_THRESHOLD * SNAP_THRESHOLD
    THEN targetP
    ELSE [targetP EXCEPT !.position = currentP.position]

\* What serverStateRef holds after updatePhysics wrote into the avatar `p` of
\* playersRef.
SeenThroughSnapshot(c, p) ==
    IF Len(c.serverStateRef) = 0 THEN <<>>
    ELSE IF c.sameObject THEN <<p>>
    ELSE IF c.samePosition
    THEN <<[c.serverStateRef[1] EXCEPT !.position = p.position]>>
    ELSE c.serverStateRef

\* One run of gameLoop in online mode (lines 364-431): physics of the own
\* avatar, the throttled input, interpolation when a snapshot is held, render.  An exception
\* leaves the frame before the next one is requested.
GameLoop(c, now) ==
    LET slimes == SelectSeq(c.slimeAreasRef,
                            LAMBDA sl : now < sl.spawnTime + sl.duration)
        hasMe == Len(c.playersRef) > 0
        phys == IF hasMe
                THEN UpdatePhysics(c.playersRef[1], slimes, now, c.mouseRef,
                                   c.obstaclesRef)
                ELSE [p |-> CliInit, threw |-> FALSE]
        target == IF hasMe THEN SeenThroughSnapshot(c, phys.p) ELSE c.serverStateRef
        c1 == [c EXCEPT !.slimeAreasRef = slimes,
                        !.playersRef = IF hasMe THEN <<phys.p>> ELSE @,
                        !.serverStateRef = target, !.last = <<>>]
        snap == DistSq(target[1].position, phys.p.position)
                   > SNAP_THRESHOLD * SNAP_THRESHOLD
        result == ApplyOnlineInterpolation(phys.p, target[1])
        c2 == IF Len(target) = 0 \/ ~hasMe THEN c1
              ELSE [c1 EXCEPT
                      !.playersRef = <<result>>,
                      !.sameObject = snap,
                      !.samePosition = snap \/ c.samePosition,
                      !.last = <<[predicted |-> phys.p, target |-> target[1],
                                  reported |-> c.reported[1],
                                  result |-> result]>>]
    IN IF phys.threw THEN [c1 EXCEPT !.loop = "crashed"]
       ELSE IF c.obstaclesRef = "undefined"
       THEN [ThrottledInput(c2, now) EXCEPT !.frames = @ + 1, !.loop = "crashed"]
       ELSE [ThrottledInput(c2, now) EXCEPT !.frames = @ + 1]

\* The effect of GameCanvas when the client's state becomes PLAYING (lines
\* 203-209): the listener is registered and the first frame requested.  The
\* component, and with it every ref, is new unless the state was GAME_OVER.
EnterPlaying(c) ==
    [(IF c.gameState = "GAME_OVER" THEN c ELSE CliInit) EXCEPT
        !.gameState = "PLAYING", !.listening = TRUE, !.loop = "running",
        !.last = <<>>]

\* The effect's cleanup when the state leaves PLAYING (lines 211-218).
LeavePlaying(c) ==
    [c EXCEPT !.gameState = "GAME_OVER", !.listening = FALSE, !.loop = "off",
              !.last = <<>>]


Init ==
    /\ rooms = [r \in {} |-> NULL]
    /\ roomOrder = <<>>
    /\ socketRooms = [s \in Sockets |-> <<>>]
    /\ connected = Sockets
    /\ clock = 0
    /\ lastTick = -1
    /\ emitted = <<>>
    /\ spawned = 0
    /\ cli = CliInit

(***************************************************************************)
(* One room played from its creation: the inputs the commands draw from.   *)
(***************************************************************************)
RoomIds == {"R1"}
Creators == {"s1"}
PotatoSpeeds == {10}
\* maxPlayers as sent by the creator: the handler passes it on unvalidated, so
\* any number is possible (0 stands for the falsy values, replaced by 12).
Capacities == {-1, 1, 2}
DtSet == {3000}
InputTargets == {Pt(100, 100)}
InputKeys == {"", "w"}
PickupOffer == {[type |-> "GHOST", position |-> Pt(100, 100)]}

SpawnChoices(s) ==
    LET rid == RoomOf(s)
    IN IF MayStart(s, rid)
       THEN [1..Len(rooms[rid].players) -> FindSafeSpawn(rooms[rid].obstacles)]
       ELSE {<<>>}

DoCreateRoom ==
    \E s \in Creators, rid \in RoomIds, sp \in PotatoSpeeds, mp \in Capacities,
       obs \in GenerateObstacles, pos \in SpawnRange :
        /\ rid \notin DOMAIN rooms
        /\ socketRooms[s] = <<>>
        /\ CreateRoom(s, rid, sp, mp, FALSE, obs, pos)

DoJoinRoom ==
    \E s \in Sockets, rid \in RoomIds, pos \in SpawnRange :
        /\ socketRooms[s] = <<>>
        /\ JoinRoom(s, rid, pos)

DoStartGame ==
    \E s \in Sockets : \E spawns \in SpawnChoices(s) :
        /\ RoomOf(s) # NULL
        /\ StartGame(s, spawns)

InputFrom(targets, keys) ==
    \E s \in Sockets, t \in targets, key \in keys :
        /\ RoomOf(s) # NULL
        /\ Input(s, t.x, t.y, key)

DoInput == InputFrom(InputTargets, InputKeys)

DoDisconnect == \E s \in Sockets : Disconnect(s)

DoTick == TickDriver(PickupOffer)

ElapseBy(steps, maxClock) ==
    \E d \in steps : clock + d <= maxClock /\ Elapse(d)

DoElapse == ElapseBy(DtSet, MaxClock)

DoGhostTimeout ==
    \E rid \in DOMAIN rooms : \E t \in rooms[rid].ghostTimers : GhostTimeout(rid, t)

Next ==
    \/ DoCreateRoom
    \/ DoJoinRoom
    \/ DoStartGame
    \/ DoInput
    \/ DoDisconnect
    \/ DoTick
    \/ DoElapse
    \/ DoGhostTimeout

Spec == Init /\ [][Next]_vars

(***************************************************************************)
(* The first seconds of a round at a finer tick, with the slime ability    *)
(* and without pickups.  It begins where create_room by s1, join_room by   *)
(* s2 and start_game, all at time 0, leave the server.                     *)
(***************************************************************************)
MaxClockGrace == 4000
DtSetGrace == {1000}
InputKeysGrace == {"", "r"}

StartedRooms ==
    {StartGameRoom(
        AddPlayer(AddPlayer(NewRoom("R1", "s1", sp, 2, FALSE, obs, 0), "s1", p1),
                  "s2", p2),
        spawns, 0) :
      sp \in PotatoSpeeds, obs \in GenerateObstacles, p1 \in SpawnRange,
      p2 \in SpawnRange, spawns \in [1..2 -> SpawnRange]}

InitGrace ==
    /\ \E room \in StartedRooms :
          /\ \A i \in 1..2 :
                /\ room.players[i].input \in FindSafeSpawn(room.obstacles)
                /\ room.players[i].position \in FindSafeSpawn(room.obstacles)
          /\ rooms = [r \in {"R1"} |-> room]
    /\ roomOrder = <<"R1">>
    /\ socketRooms = [s \in Sockets |-> <<"R1">>]
    /\ connected = Sockets
    /\ clock = 0
    /\ lastTick = -1
    /\ emitted = <<EvGameStarted("R1"), EvLobbies(rooms, roomOrder)>>
    /\ spawned = 0
    /\ cli = CliInit

DoInputGrace == InputFrom(InputTargets, InputKeysGrace)

DoTickGrace == TickDriver({})

DoElapseGrace == ElapseBy(DtSetGrace, MaxClockGrace)

NextGrace ==
    \/ DoInputGrace
    \/ DoDisconnect
    \/ DoTickGrace
    \/ DoElapseGrace

SpecGrace == InitGrace /\ [][NextGrace]_vars

(***************************************************************************)
(* The same start with every ability key, over a shorter time.             *)
(***************************************************************************)
MaxClockAbility == 2000
\* s1 plays dash, shield and stealth; s2 lays the hazard areas.
InputKeysAbility(s) == IF s = "s1" THEN {"", "q", "w", "e"} ELSE {"", "r"}

DoInputAbility ==
    \E s \in Sockets, t \in InputTargets : \E key \in InputKeysAbility(s) :
        /\ RoomOf(s) # NULL
        /\ Input(s, t.x, t.y, key)

DoElapseAbility == ElapseBy(DtSetGrace, MaxClockAbility)

NextAbility ==
    \/ DoInputAbility
    \/ DoDisconnect
    \/ DoTickGrace
    \/ DoElapseAbility

SpecAbility == InitGrace /\ [][NextAbility]_vars

(***************************************************************************)
(* Rounds of the same room with two GHOST pickups and restarts by the      *)
(* host, without inputs.                                                   *)
(***************************************************************************)
MaxSpawnedGhost == 2

DoTickGhost == TickDriverUpTo(PickupOffer, MaxSpawnedGhost)

NextGhost ==
    \/ DoStartGame
    \/ DoTickGhost
    \/ DoElapse
    \/ DoGhostTimeout

SpecGhost == InitGrace /\ [][NextGhost]_vars

(***************************************************************************)
(* The same start with every ability key and a COOLDOWN_RESET pickup on    *)
(* the spawn point.                                                        *)
(***************************************************************************)
PickupOfferCooldown == {[type |-> "COOLDOWN_RESET", position |-> Pt(100, 100)]}

DoTickCooldown == TickDriver(PickupOfferCooldown)

NextCooldown ==
    \/ DoInputAbility
    \/ DoTickCooldown
    \/ DoElapseAbility

SpecCooldown == InitGrace /\ [][NextCooldown]_vars

(***************************************************************************)
(* A round of two avatars that stand still, s1 on (100, 100) and s2 on     *)
(* (790, 100), at four ticks a second, until the score brings a second     *)
(* pursuer: a pickup without effect appears again and again on the spawn   *)
(* point (790, 100).                                                       *)
(***************************************************************************)
MaxClockPursuit == 4000
MaxSpawnedPursuit == 10

DtSetPursuit == {250}
PickupOfferPursuit == {[type |-> "DOUBLE_POINTS", position |-> Pt(790, 100)]}

InitPursuit ==
    /\ InitGrace
    /\ LET p1 == rooms["R1"].players[1]
           p2 == rooms["R1"].players[2]
       IN /\ p1.position = Pt(100, 100) /\ p1.input = p1.position
          /\ p2.position = Pt(790, 100) /\ p2.input = p2.position

DoTickPursuit == TickDriverUpTo(PickupOfferPursuit, MaxSpawnedPursuit)

DoElapsePursuit == ElapseBy(DtSetPursuit, MaxClockPursuit)

NextPursuit ==
    \/ DoTickPursuit
    \/ DoElapsePursuit

SpecPursuit == InitPursuit /\ [][NextPursuit]_vars

(***************************************************************************)
(* The first three seconds of the same round with movement: s1 starts on   *)
(* (100, 100) in the open, s2 on (790, 100) beside the obstacle, and each  *)
(* points at targets of its own.                                           *)
(***************************************************************************)
MaxClockMove == 3000

InputTargetsMove(s) ==
    IF s = "s1"
    THEN {Pt(103, 100), Pt(500, 100), Pt(100, 300), Pt(250, 10), Pt(740, 200)}
    ELSE {Pt(940, 300), Pt(770, 300), Pt(870, 200), Pt(770, 200)}

DoInputMove ==
    \E s \in Sockets : \E t \in InputTargetsMove(s) : Input(s, t.x, t.y, "")

DoElapseMove == ElapseBy(DtSetGrace, MaxClockMove)

NextMove ==
    \/ DoInputMove
    \/ DoTickGrace
    \/ DoElapseMove

SpecMove == InitPursuit /\ [][NextMove]_vars

(***************************************************************************)
(* Rounds of two avatars that stand on (790, 100) while pickups appear on  *)
(* (100, 100), out of their reach until a respawn puts an avatar there.    *)
(***************************************************************************)
MaxClockPickup == 12000
MaxSpawnedPickup == 6

PickupOfferPickup == {[type |-> "MAGNET", position |-> Pt(100, 100)]}

InitPickup ==
    /\ InitGrace
    /\ \A i \in 1..2 :
          LET p == rooms["R1"].players[i]
          IN p.position = Pt(790, 100) /\ p.input = p.position

DoTickPickup == TickDriverUpTo(PickupOfferPickup, MaxSpawnedPickup)

DoElapsePickup == ElapseBy(DtSetGrace, MaxClockPickup)

NextPickup ==
    \/ DoTickPickup
    \/ DoElapsePickup

SpecPickup == InitPickup /\ [][NextPickup]_vars

(***************************************************************************)
(* findPath (GameCanvas.tsx, lines 730-783): the grid search of the        *)
(* single-player pursuer.  A node of the open list is a record with its    *)
(* cell, f, g, h and `parent`, the cell of its parent node or <<>> for     *)
(* null: a parent is always a node that has left the open list, and such a *)
(* node is never written again, so `came` keeps for every closed cell the  *)
(* parent its node had.  The result carries, besides the waypoints, the    *)
(* value of the local counter `iterations` at the return.                  *)
(***************************************************************************)
GRID_SIZE == 50
PATH_ITERATIONS == 300

GetGridPos(pos) == [x |-> pos.x \div GRID_SIZE, y |-> pos.y \div GRID_SIZE]

GridCols == (CANVAS_WIDTH + GRID_SIZE - 1) \div GRID_SIZE
GridRows == (CANVAS_HEIGHT + GRID_SIZE - 1) \div GRID_SIZE

Neighbors ==
    <<Pt(0, -1), Pt(0, 1), Pt(-1, 0), Pt(1, 0), Pt(-1, -1), Pt(1, -1), Pt(-1, 1), Pt(1, 1)>>

\* The cell's square overlaps an obstacle (lines 766-771).
CellBlocked(nx, ny, obstaclesRef) ==
    \E i \in 1..Len(obstaclesRef) :
        LET obs == obstaclesRef[i]
        IN /\ nx * GRID_SIZE < obs.x + obs.width
           /\ nx * GRID_SIZE + GRID_SIZE > obs.x
           /\ ny * GRID_SIZE < obs.y + obs.height
           /\ ny * GRID_SIZE + GRID_SIZE > obs.y

CellCentre(cell) ==
    Pt(cell.x * GRID_SIZE + GRID_SIZE \div 2, cell.y * GRID_SIZE + GRID_SIZE \div 2)

\* The first node of the open list with the least f (lines 744-745).
LowInd(openSet) ==
    CHOOSE i \in 1..Len(openSet) :
        /\ \A j \in 1..Len(openSet) : openSet[j].f >= openSet[i].f
        /\ \A j \in 1..(i - 1) : openSet[j].f > openSet[i].f

\* openSet.find (line 775): the index of the cell's node, 0 when it has none.
FindNode(openSet, nx, ny) ==
    IF \E i \in 1..Len(openSet) : openSet[i].x = nx /\ openSet[i].y = ny
    THEN CHOOSE i \in 1..Len(openSet) :
            /\ openSet[i].x = nx /\ openSet[i].y = ny
            /\ \A j \in 1..(i - 1) : ~(openSet[j].x = nx /\ openSet[j].y = ny)
    ELSE 0

Accepts_BlockedToo(nx, ny, closedSet, obstaclesRef) ==
    /\ nx >= 0 /\ ny >= 0 /\ nx < GridCols /\ ny < GridRows
    /\ Pt(nx, ny) \notin closedSet

\* The tests a neighbour cell passes before it is scored (lines 764-772).
Accepts(nx, ny, closedSet, obstaclesRef) ==
    /\ nx >= 0 /\ ny >= 0 /\ nx < GridCols /\ ny < GridRows
    /\ Pt(nx, ny) \notin closedSet
    /\ ~CellBlocked(nx, ny, obstaclesRef)

\* The loop over the neighbours of `current` from the k-th on (lines 761-781):
\* the open list it leaves.
RECURSIVE VisitNeighbors(_, _, _, _, _, _)
VisitNeighbors(openSet, closedSet, current, endNode, obstaclesRef, k) ==
    IF k > Len(Neighbors) THEN openSet
    ELSE
      LET nx == current.x + Neighbors[k].x
          ny == current.y + Neighbors[k].y
          gScore == current.g + 1
          i == FindNode(openSet, nx, ny)
          h == Abs(nx - endNode.x) + Abs(ny - endNode.y)
          scored == [x |-> nx, y |-> ny, f |-> gScore + h, g |-> gScore, h |-> h,
                     parent |-> <<Pt(current.x, current.y)>>]
          next == IF ~Accepts(nx, ny, closedSet, obstaclesRef) THEN openSet
                  ELSE IF i = 0 THEN Append(openSet, scored)
                  ELSE IF gScore < openSet[i].g THEN [openSet EXCEPT ![i] = scored]
                  ELSE openSet
      IN VisitNeighbors(next, closedSet, current, endNode, obstaclesRef, k + 1)

\* The waypoints from the node of `cell`, whose parent is `parent`, back to
\* the start node, in the order of path.push (lines 749-753).
RECURSIVE PathBack(_, _, _)
PathBack(cell, parent, came) ==
    IF parent = <<>> THEN <<>>
    ELSE <<CellCentre(cell)>> \o PathBack(parent[1], came[parent[1]], came)

Reverse(s) == [i \in 1..Len(s) |-> s[Len(s) + 1 - i]]

\* The condition of the search loop (line 742).
SearchGoesOn(openSet, iterations) == Len(openSet) > 0 /\ iterations < PATH_ITERATIONS

\* The search as findPath leaves it at line 741, before the loop.
SearchStart(startPos) ==
    LET startNode == GetGridPos(startPos)
    IN [openSet |-> <<[x |-> startNode.x, y |-> startNode.y, f |-> 0, g |-> 0, h |-> 0,
                       parent |-> <<>>]>>,
        closedSet |-> {}, came |-> [c \in {} |-> <<>>], iterations |-> 0,
        returned |-> FALSE, path |-> <<>>]

\* One test of the loop condition and, when it holds, one run of the loop body
\* (lines 742-782); when it fails, the return of line 783.
SearchStep(sr, endPos, obstaclesRef) ==
    IF SearchGoesOn(sr.openSet, sr.iterations)
    THEN LET lowInd == LowInd(sr.openSet)
             current == sr.openSet[lowInd]
             cell == Pt(current.x, current.y)
             endNode == GetGridPos(endPos)
         IN IF current.x = endNode.x /\ current.y = endNode.y
            THEN [sr EXCEPT !.iterations = @ + 1, !.returned = TRUE,
                            !.path = Reverse(PathBack(cell, current.parent, sr.came))]
            ELSE [sr EXCEPT
                    !.iterations = @ + 1,
                    !.openSet = VisitNeighbors(RemoveAt(sr.openSet, lowInd),
                                               sr.closedSet \cup {cell},
                                               current, endNode, obstaclesRef, 1),
                    !.closedSet = @ \cup {cell},
                    !.came = [c \in DOMAIN sr.came \cup {cell} |->
                                 IF c = cell THEN current.parent ELSE sr.came[c]]]
    ELSE [sr EXCEPT !.returned = TRUE, !.path = <<endPos>>]

\* The call of findPath up to the loop: the early return of line 735 for a
\* target closer than two cells.
FindPath(startPos, endPos) ==
    IF DistSq(startPos, endPos) < (GRID_SIZE * 2) * (GRID_SIZE * 2)
    THEN [SearchStart(startPos) EXCEPT !.returned = TRUE, !.path = <<endPos>>]
    ELSE SearchStart(startPos)

(***************************************************************************)
(* The single-player client computing the pursuer's path: the pursuer's    *)
(* position, the target avatar's position and the obstacles are drawn at   *)
(* the start.  `cli` holds the pursuer (position, currentPath), the target *)
(* and obstaclesRef, and while findPath runs its local variables in        *)
(* `search`; a step of the client is one test of the loop condition with   *)
(* the loop body or the return that follows it.  The server does nothing.  *)
(***************************************************************************)
PathLayouts ==
    {<<ObsA>>, <<Rect(830, 60, 200, 200)>>,
     <<Rect(830, 60, 200, 200), Rect(600, 400, 299, 100)>>}
PathStarts == {Pt(50, 50), Pt(700, 150), Pt(1100, 150), Pt(925, 550), Pt(1975, 1975)}
PathTargets ==
    {Pt(100, 100), Pt(790, 100), Pt(804, 100), Pt(1060, 150), Pt(925, 300),
     Pt(775, 150), Pt(1200, 1200), Pt(25, 1975)}

InitPath ==
    /\ rooms = [r \in {} |-> NULL]
    /\ roomOrder = <<>>
    /\ socketRooms = [s \in Sockets |-> <<>>]
    /\ connected = {}
    /\ clock = 0
    /\ lastTick = -1
    /\ emitted = <<>>
    /\ spawned = 0
    /\ \E start \in PathStarts, target \in PathTargets, layout \in PathLayouts :
          /\ PointSafe(target, layout)
          /\ cli = [position |-> start, target |-> target, obstaclesRef |-> layout,
                    currentPath |-> <<>>, phase |-> "idle",
                    search |-> SearchStart(start)]

\* potato.currentPath = findPath(potato.position, target.position) (line 803):
\* the call.
CliFindPath ==
    /\ cli.phase = "idle"
    /\ cli' = [cli EXCEPT !.phase = "searching",
                          !.search = FindPath(cli.position, cli.target)]
    /\ UNCHANGED <<rooms, roomOrder, socketRooms, connected, clock, lastTick,
                   emitted, spawned>>

\* findPath goes on: the assignment of line 803 when it has returned, one
\* more turn of its loop otherwise.
CliSearchStep ==
    /\ cli.phase = "searching"
    /\ cli' = IF cli.search.returned
              THEN [cli EXCEPT !.phase = "done", !.currentPath = cli.search.path]
              ELSE [cli EXCEPT !.search =
                       SearchStep(cli.search, cli.target, cli.obstaclesRef)]
    /\ UNCHANGED <<rooms, roomOrder, socketRooms, connected, clock, lastTick,
                   emitted, spawned>>

NextPath ==
    \/ CliFindPath
    \/ CliSearchStep

SpecPath == InitPath /\ [][NextPath]_vars

(***************************************************************************)
(* The registry with three connections and two room ids.  The handlers     *)
(* take any connection and any id: create_room draws its id at random, so  *)
(* the id of a room that exists can be drawn again, and a connection may   *)
(* create or join while it is a member of a room.  The clock stands still  *)
(* and the tick driver does not run.                                       *)
(***************************************************************************)
SocketsRegistry == {"s1", "s2", "s3"}
RoomIdsRegistry == {"R1", "R2"}
CreatorsRegistry == {"s1", "s2"}
CapacitiesRegistry == {3}
SpawnsRegistry == {Pt(100, 100)}

InitRegistry ==
    /\ rooms = [r \in {} |-> NULL]
    /\ roomOrder = <<>>
    /\ socketRooms = [s \in SocketsRegistry |-> <<>>]
    /\ connected = SocketsRegistry
    /\ clock = 0
    /\ lastTick = -1
    /\ emitted = <<>>
    /\ spawned = 0
    /\ cli = CliInit

DoCreateRegistry ==
    \E s \in CreatorsRegistry, rid \in RoomIdsRegistry, sp \in PotatoSpeeds,
       mp \in CapacitiesRegistry, obs \in GenerateObstacles, pos \in SpawnsRegistry :
        CreateRoom(s, rid, sp, mp, FALSE, obs, pos)

DoJoinRegistry ==
    \E s \in SocketsRegistry, rid \in RoomIdsRegistry, pos \in SpawnsRegistry :
        JoinRoom(s, rid, pos)

DoStartRegistry ==
    \E s \in SocketsRegistry :
        \E spawns \in IF MayStart(s, RoomOf(s))
                       THEN [1..Len(rooms[RoomOf(s)].players) -> SpawnsRegistry]
                       ELSE {<<>>} :
            StartGame(s, spawns)

DoInputRegistry ==
    \E s \in SocketsRegistry, t \in InputTargets : Input(s, t.x, t.y, "")

DoDisconnectRegistry == \E s \in SocketsRegistry : Disconnect(s)

NextRegistry ==
    \/ DoCreateRegistry
    \/ DoJoinRegistry
    \/ DoStartRegistry
    \/ DoInputRegistry
    \/ DoDisconnectRegistry

SpecRegistry == InitRegistry /\ [][NextRegistry]_vars

(***************************************************************************)
(* The client of connection Me against the snapshots the tick broadcasts;  *)
(* the server is left where it starts.                                     *)
(***************************************************************************)
MaxFrames == 3
ClientNow == {1000, 4000}
PointerTargets == {Pt(100, 100), Pt(600, 100)}

\* The hazard area another avatar laid on (100, 100) at time 0.
ForeignSlime ==
    [ownerId |-> "s2", x |-> 100, y |-> 100, radius |-> SLIME_RADIUS,
     spawnTime |-> 0, duration |-> SLIME_DURATION]

\* The own avatar as a tick can report it: alive or eliminated, on its target
\* or away from it.
ReportedAvatars ==
    {[NewPlayer(Me, pos) EXCEPT !.lives = st.lives, !.isDead = st.isDead,
                                !.score = st.score] :
       pos \in {Pt(100, 100), Pt(140, 100), Pt(200, 100)},
       st \in {[lives |-> 3, isDead |-> FALSE, score |-> 10],
               [lives |-> 0, isDead |-> TRUE, score |-> 20]}}

TickSnapshots ==
    {[player |-> p, slimeAreas |-> sl, fields |-> TickSnapshotFields] :
       p \in ReportedAvatars, sl \in {<<>>, <<ForeignSlime>>}}

ClientStep(c) ==
    /\ cli' = c
    /\ UNCHANGED <<rooms, roomOrder, socketRooms, connected, clock, lastTick,
                   emitted, spawned>>

CliGameStarted == cli.gameState # "PLAYING" /\ ClientStep(EnterPlaying(cli))

CliGameOver == cli.gameState = "PLAYING" /\ ClientStep(LeavePlaying(cli))

CliToLobby == cli.gameState = "GAME_OVER" /\ ClientStep(CliInit)

CliGameState ==
    \E state \in TickSnapshots :
        cli.listening /\ ClientStep(OnGameState(cli, state))

CliMouseMove ==
    \E t \in PointerTargets :
        /\ cli.gameState = "PLAYING"
        /\ ClientStep([cli EXCEPT !.mouseRef = t, !.last = <<>>])

CliFrame ==
    \E now \in ClientNow :
        /\ cli.gameState = "PLAYING"
        /\ cli.loop = "running"
        /\ cli.frames < MaxFrames
        /\ ClientStep(GameLoop(cli, now))

NextClient ==
    \/ CliGameStarted
    \/ CliGameOver
    \/ CliToLobby
    \/ CliGameState
    \/ CliMouseMove
    \/ CliFrame

SpecClient == Init /\ [][NextClient]_vars

(***************************************************************************)
(* The client of connection Me in a running round, its frames and key      *)
(* presses at the times the clock shows; the server is left where it       *)
(* starts and sends no snapshot.                                           *)
(***************************************************************************)
MaxClockInput == 1200
MaxFramesInput == 8
FrameGaps == {16, 40}
KeysPressed == {"q", "x"}

InitInput ==
    /\ rooms = [r \in {} |-> NULL]
    /\ roomOrder = <<>>
    /\ socketRooms = [s \in Sockets |-> <<>>]
    /\ connected = Sockets
    /\ clock = 1000
    /\ lastTick = -1
    /\ emitted = <<>>
    /\ spawned = 0
    /\ cli = EnterPlaying(CliInit)

CliFrameInput ==
    /\ cli.gameState = "PLAYING"
    /\ cli.loop = "running"
    /\ cli.frames < MaxFramesInput
    /\ ClientStep(GameLoop(cli, clock))

CliKeyDown == \E key \in KeysPressed : ClientStep(HandleKeyDown(cli, key, clock))

CliElapse ==
    \E d \in FrameGaps :
        /\ clock + d <= MaxClockInput
        /\ clock' = clock + d
        /\ UNCHANGED <<rooms, roomOrder, socketRooms, connected, lastTick, emitted,
                       spawned, cli>>

NextInput ==
    \/ CliFrameInput
    \/ CliKeyDown
    \/ CliElapse

SpecInput == InitInput /\ [][NextInput]_vars

(***************************************************************************)
(* Properties                                                              *)
(***************************************************************************)
Avatars(rid) == {rooms[rid].players[i] : i \in 1..Len(rooms[rid].players)}

Pursuers(rid) == {rooms[rid].potatoes[i] : i \in 1..Len(rooms[rid].potatoes)}

\* C1: in every reachable state every avatar's circle lies inside the arena
\* and overlaps no obstacle rectangle.
\* findSafeSpawn tests the centre point only, so a spawn can leave the
\* circle across an obstacle's edge: the statement fails.
C1_AvatarsClear ==
    \A rid \in DOMAIN rooms : \A p \in Avatars(rid) :
        IsPositionValid(p.position.x, p.position.y, PLAYER_RADIUS,
                        rooms[rid].obstacles)

\* C2: in every reachable state every pursuer's circle lies inside the arena
\* and overlaps no obstacle rectangle.
\* A pursuer's step is applied without any test, so it walks onto obstacles:
\* the statement fails.
C2_PursuersClear ==
    \A rid \in DOMAIN rooms : \A q \in Pursuers(rid) :
        IsPositionValid(q.position.x, q.position.y, POTATO_RADIUS,
                        rooms[rid].obstacles)

\* C3: every avatar's life count stays between 0 and 3.
C3_LivesInRange ==
    \A rid \in DOMAIN rooms : \A p \in Avatars(rid) :
        p.lives >= 0 /\ p.lives <= MAX_LIVES

\* An avatar has lost all of its lives while a pursuer is still on it.
C3_Witness ==
    \E rid \in DOMAIN rooms : \E p \in Avatars(rid) : \E q \in Pursuers(rid) :
        /\ p.lives = 0 /\ p.isDead
        /\ InContact(p.position, q.position, PLAYER_RADIUS + POTATO_RADIUS)
        /\ ~q.isFrozen

\* The game_over events of the last step.
GameOverEvents == {emitted[k] : k \in Emitted("game_over")}

\* C4: on every client frame in online mode, the own avatar's position
\* becomes the server-reported one when the predicted position is more than
\* 50 away from it and stays the predicted one otherwise, and its lives,
\* dead flag, cooldowns and score are those the server reported.
\* The avatar object of the client's first snapshot is also the client's own
\* avatar, so the frame's status update writes the hazard floors of the
\* cooldowns into the snapshot before it is read: the statement fails.
C4_Reconciled ==
    \A k \in 1..Len(cli.last) :
        LET f == cli.last[k]
            far == DistSq(f.predicted.position, f.reported.position)
                      > SNAP_THRESHOLD * SNAP_THRESHOLD
        IN /\ far => f.result.position = f.reported.position
           /\ ~far => f.result.position = f.predicted.position
           /\ f.result.lives = f.reported.lives
           /\ f.result.isDead = f.reported.isDead
           /\ f.result.score = f.reported.score
           /\ f.result.dashCooldown = f.reported.dashCooldown
           /\ f.result.shieldCooldown = f.reported.shieldCooldown
           /\ f.result.smokeCooldown = f.reported.smokeCooldown
           /\ f.result.slimeCooldown = f.reported.slimeCooldown

\* C5: when game over is reported at a tick where exactly one avatar is
\* alive, winnerId is that avatar's id.
C5_SoleSurvivorWins ==
    \A e \in GameOverEvents :
        LET players == rooms[e.to].players
        IN AliveCount(players) = 1 =>
              \A i \in 1..Len(players) :
                  ~players[i].isDead => e.data.winnerId = players[i].id

\* Game over has just been reported for a room holding a dead avatar after
\* its single living one.
C5_Witness ==
    \E e \in GameOverEvents :
        LET players == rooms[e.to].players
        IN /\ Len(players) = 2
           /\ ~players[1].isDead
           /\ players[2].isDead
           /\ e.data.winnerId = players[1].id

\* C6: when the win check finds no living avatar, winnerId is the tracked
\* single survivor of this round if there is one, and otherwise the id of an
\* avatar with the highest score in the room.
C6_NoSurvivorWinner ==
    \A e \in GameOverEvents :
        LET room == rooms[e.to]
            players == room.players
        IN AliveCount(players) = 0 =>
              IF room.lastSurvivorId # NULL
              THEN e.data.winnerId = room.lastSurvivorId
              ELSE \E i \in 1..Len(players) :
                      /\ e.data.winnerId = players[i].id
                      /\ \A k \in 1..Len(players) :
                            players[k].score <= players[i].score

\* Game over has just been reported with nobody alive, for a survivor that
\* was tracked in the round and has left the room since.
C6_Witness ==
    \E e \in GameOverEvents :
        LET room == rooms[e.to]
        IN /\ AliveCount(room.players) = 0
           /\ room.lastSurvivorId # NULL
           /\ e.data.winnerId = room.lastSurvivorId
           /\ IndexOf(room.players, room.lastSurvivorId) = 0

\* C7: no game over is reported by a tick whose time is within 3000 ms of the
\* round's start.
C7_NoGameOverInGrace ==
    \A e \in GameOverEvents : clock - rooms[e.to].startTime > GRACE_MS

\* A tick exactly 3000 ms after the round's start has left a round with at
\* most one living avatar running.
C7_Witness ==
    \E rid \in DOMAIN rooms :
        /\ rooms[rid].state = "PLAYING"
        /\ lastTick = clock
        /\ rooms[rid].lastUpdate = clock
        /\ clock - rooms[rid].startTime = GRACE_MS
        /\ AliveCount(rooms[rid].players) <= 1
        /\ Emitted("game_state") # {}

\* The contacts of the last tick, over all rooms.
Contacts == UNION {SeqToSet(rooms[rid].contactLog) : rid \in DOMAIN rooms}

\* C8: on contact between a pursuer and a living avatar, a shielded avatar
\* loses no life and the pursuer is frozen afterwards; a ghosted avatar loses
\* no life; an avatar neither shielded nor ghosted loses exactly one life when
\* the pursuer is not frozen; a frozen pursuer takes no life.
C8_ContactOutcome ==
    \A c \in Contacts :
        /\ c.shielded => c.livesAfter = c.livesBefore /\ c.frozenAfter
        /\ c.ghost => c.livesAfter = c.livesBefore
        /\ (~c.shielded /\ ~c.ghost /\ ~c.frozenBefore) =>
               c.livesAfter = c.livesBefore - 1
        /\ c.frozenBefore => c.livesAfter = c.livesBefore

\* In one tick a pursuer was frozen by a shielded avatar and then touched an
\* avatar that was neither shielded nor ghosted.
C8_Witness ==
    \E c, d \in Contacts :
        /\ c.potato = d.potato
        /\ c.shielded /\ ~c.frozenBefore /\ c.frozenAfter
        /\ ~d.shielded /\ ~d.ghost /\ d.frozenBefore
        /\ d.livesAfter = d.livesBefore

\* C9: within a round the pursuer-speed multiplier is its value at the
\* round's start plus one increment per elimination so far, no avatar is
\* eliminated twice, and the eliminated avatars are exactly those whose lives
\* reached 0.
C9_MultiplierCountsEliminations ==
    \A rid \in DOMAIN rooms :
        LET room == rooms[rid]
        IN room.state = "PLAYING" =>
              /\ room.potatoSpeedMultiplier =
                     room.initialPotatoSpeed + Len(room.elimLog)
              /\ \A j, k \in 1..Len(room.elimLog) :
                     room.elimLog[j] = room.elimLog[k] => j = k
              /\ \A p \in Avatars(rid) :
                     p.lives <= 0 <=> p.id \in SeqToSet(room.elimLog)

\* A tick has taken a life from one avatar with the pursuer also on an avatar
\* eliminated in an earlier tick, whose elimination is the only one counted.
C9_Witness ==
    \E rid \in DOMAIN rooms : \E p \in Avatars(rid) : \E q \in Pursuers(rid) :
        /\ rooms[rid].state = "PLAYING"
        /\ rooms[rid].lastUpdate = clock
        /\ p.isDead
        /\ \A c \in Contacts : c.player # p.id
        /\ \E c \in Contacts : c.livesAfter < c.livesBefore
        /\ InContact(p.position, q.position, PLAYER_RADIUS + POTATO_RADIUS)
        /\ ~q.isFrozen
        /\ rooms[rid].elimLog = <<p.id>>
        /\ rooms[rid].potatoSpeedMultiplier = rooms[rid].initialPotatoSpeed + 1

\* The cases in which join_room is to be rejected.
JoinRejected(rid) ==
    \/ rid \notin DOMAIN rooms
    \/ rooms[rid].state # "WAITING"
    \/ Len(rooms[rid].players) >= rooms[rid].maxPlayers

\* C10: a join_room for a room that does not exist, is not WAITING or already
\* holds maxPlayers avatars sends an error event to the sender and leaves the
\* registry, every room and every socket's membership unchanged.
C10_RejectedJoinChangesNothing ==
    [][\A s \in Sockets, rid \in RoomIds, pos \in SpawnRange :
          (JoinRoom(s, rid, pos) /\ JoinRejected(rid)) =>
              /\ rooms' = rooms
              /\ roomOrder' = roomOrder
              /\ socketRooms' = socketRooms
              /\ \E k \in 1..Len(emitted') :
                    emitted'[k].type = "error" /\ emitted'[k].to = s
              /\ \A k \in 1..Len(emitted') : emitted'[k].type = "error"]_vars

\* A join has just been refused because the room is full.
C10_Witness ==
    /\ emitted = <<EvError("s2", "Room is full!")>>
    /\ "R1" \in DOMAIN rooms
    /\ rooms["R1"].state = "WAITING"
    /\ Len(rooms["R1"].players) = rooms["R1"].maxPlayers
    /\ socketRooms["s2"] = <<>>

\* C11: in every reachable state every room holds at most maxPlayers avatars,
\* whatever capacity the creator sent.
\* create_room adds the creator without a capacity test and the constructor
\* keeps every truthy maxPlayers, so a room created with maxPlayers = -1
\* holds one avatar.
C11_AtMostMaxPlayers ==
    \A rid \in DOMAIN rooms : Len(rooms[rid].players) <= rooms[rid].maxPlayers

\* The spawn sequences a start_game of connection s can draw at most.
StartSpawns(s) ==
    IF MayStart(s, RoomOf(s))
    THEN [1..Len(rooms[RoomOf(s)].players) -> SpawnRange]
    ELSE {<<>>}

HostedBy(s) == {rid \in DOMAIN rooms : rooms[rid].hostId = s}

EventsTo(evs, type, rid) ==
    {k \in 1..Len(evs) : evs[k].type = type /\ evs[k].to = rid}

\* C13: game_over is emitted once for a round, in the tick that finds the win
\* condition (grace over and at most one avatar alive at the start of the
\* tick); that tick leaves the room in WAITING, and a room in WAITING is not
\* simulated and gets no game_state or game_over broadcast until it is started.
C13_GameOverOncePerRound ==
    [][\A rid \in DOMAIN rooms :
          LET room == rooms[rid]
              over == EventsTo(emitted', "game_over", rid)
              snap == EventsTo(emitted', "game_state", rid)
              ticked == lastTick' # lastTick
              found == /\ ticked /\ room.state = "PLAYING" /\ ~room.gameEnded
                       /\ clock - room.startTime > 3000
                       /\ AliveCount(room.players) <= 1
          IN /\ room.state \in {"WAITING", "PLAYING"}
             /\ room.gameEnded => room.state = "WAITING"
             /\ Cardinality(over) <= 1
             /\ over # {} <=> found
             /\ over # {} =>
                   /\ rid \in DOMAIN rooms'
                   /\ rooms'[rid].state = "WAITING"
                   /\ rooms'[rid].gameEnded
                   /\ snap = {}
             /\ room.state = "WAITING" =>
                   /\ snap = {} /\ over = {}
                   /\ ticked => rooms'[rid] = room]_vars

\* The driver has run for a room whose round ended in an earlier tick: the
\* room is as that tick left it and nothing was emitted.
C13_Witness ==
    /\ "R1" \in DOMAIN rooms
    /\ rooms["R1"].state = "WAITING"
    /\ rooms["R1"].gameEnded
    /\ lastTick = clock
    /\ rooms["R1"].lastUpdate < clock
    /\ emitted = <<>>

\* The rooms whose round has just been started by the last handler.
JustStarted ==
    {rid \in DOMAIN rooms : EventsTo(emitted, "game_started", rid) # {}}

\* C14: immediately after a round start every avatar of the room has 3 lives,
\* is not dead, has score 0 and its four cooldowns at 0; the room has exactly
\* one pursuer, not frozen and without target; there are no pickups and no
\* hazard areas; the multiplier is the room's initial speed factor and the
\* round start time is the time of the start.
C14_RoundStartResets ==
    \A rid \in JustStarted :
        LET room == rooms[rid]
        IN /\ room.state = "PLAYING"
           /\ \A p \in Avatars(rid) :
                 /\ p.lives = 3 /\ ~p.isDead /\ p.score = 0
                 /\ p.dashCooldown = 0 /\ p.shieldCooldown = 0
                 /\ p.smokeCooldown = 0 /\ p.slimeCooldown = 0
           /\ Len(room.potatoes) = 1
           /\ ~room.potatoes[1].isFrozen
           /\ room.potatoes[1].targetId = NULL
           /\ room.potatoes[1].position = Pt(100, 100)
           /\ room.powerups = <<>>
           /\ room.slimeAreas = <<>>
           /\ room.potatoSpeedMultiplier = room.initialPotatoSpeed
           /\ room.startTime = clock
           /\ ~room.gameEnded

\* A round has just been started in a room that has been played in before:
\* an avatar still carries the ghost status of a pickup of the earlier round.
C14_Witness ==
    \E rid \in JustStarted : \E p \in Avatars(rid) :
        /\ p.isGhost
        /\ rooms[rid].lastUpdate = clock
        /\ clock > 0

\* The cooldown an ability key works on, and the value an activation sets.
CooldownOf(p, key) ==
    CASE key = "q" -> p.dashCooldown
      [] key = "w" -> p.shieldCooldown
      [] key = "e" -> p.smokeCooldown
      [] key = "r" -> p.slimeCooldown

Cooldowns(p) ==
    <<p.dashCooldown, p.shieldCooldown, p.smokeCooldown, p.slimeCooldown>>

AbilityKeys == {"q", "w", "e", "r"}

\* C15: an ability key in an input activates the ability only if that
\* ability's cooldown is <= 0 and the avatar is not silenced, and then sets
\* that cooldown to its maximum (8000, 20000, 12000, 15000) and no other;
\* otherwise the input changes no cooldown and creates no hazard area.  Only
\* the hazard key creates a hazard area.
C15_AbilityActivation ==
    [][\A s \in Sockets, t \in InputTargets, key \in AbilityKeys \cup {""} :
          (Input(s, t.x, t.y, key) /\ RoomOf(s) \in DOMAIN rooms
             /\ IndexOf(rooms[RoomOf(s)].players, s) # 0) =>
              LET rid == RoomOf(s)
                  i == IndexOf(rooms[rid].players, s)
                  p == rooms[rid].players[i]
                  p2 == rooms'[rid].players[i]
                  max == [q |-> 8000, w |-> 20000, e |-> 12000, r |-> 15000]
              IN IF key \in AbilityKeys /\ CooldownOf(p, key) <= 0 /\ ~p.isSilenced
                 THEN /\ CooldownOf(p2, key) = max[key]
                      /\ \A k \in AbilityKeys \ {key} :
                            CooldownOf(p2, k) = CooldownOf(p, k)
                      /\ IF key = "r"
                         THEN /\ Len(rooms'[rid].slimeAreas) = Len(rooms[rid].slimeAreas) + 1
                              /\ rooms'[rid].slimeAreas[Len(rooms'[rid].slimeAreas)].ownerId = s
                         ELSE rooms'[rid].slimeAreas = rooms[rid].slimeAreas
                 ELSE /\ Cooldowns(p2) = Cooldowns(p)
                      /\ rooms'[rid].slimeAreas = rooms[rid].slimeAreas]_vars

\* The dash has just been activated by one avatar while the hazard cooldown
\* of another is running.
C15_Witness ==
    \E rid \in DOMAIN rooms : \E p, o \in Avatars(rid) :
        /\ p.dashCooldown = 8000
        /\ p.speedBoostEndTime = clock + 300
        /\ o.slimeCooldown > 0
        /\ emitted = <<>>

\* The avatar's centre is inside a hazard area of the room owned by another.
InsideForeignHazard(p, room) ==
    \E n \in 1..Len(room.slimeAreas) : InForeignSlime(p, room.slimeAreas[n])

\* C16: in every state broadcast in a snapshot each living avatar's flags are
\* the functions of its cooldowns and hazard state: shielded = (shield
\* cooldown > 17000 and outside every foreign hazard), stealthed = (stealth
\* cooldown > 7000 and outside every foreign hazard), silenced = slowed =
\* inside a foreign hazard.
\* The flags are computed at the start of the tick; the respawn that follows
\* in checkCollisions sets the shield cooldown to 20000 without the flag, and
\* the avatar's move comes after the hazard test.
C16_FlagsAreDerived ==
    \A rid \in DOMAIN rooms :
        EventsTo(emitted, "game_state", rid) # {} =>
            \A p \in Avatars(rid) :
                ~p.isDead =>
                    LET inside == InsideForeignHazard(p, rooms[rid])
                    IN /\ p.isShielded = (p.shieldCooldown > 17000 /\ ~inside)
                       /\ p.isHidden = (p.smokeCooldown > 7000 /\ ~inside)
                       /\ p.isSilenced = inside
                       /\ p.isSlowed = inside

\* The hazard areas still active at `now` (the filter of line 230).
ActiveAreas(room, now) ==
    SelectSeq(room.slimeAreas, LAMBDA sl : now < sl.spawnTime + sl.duration)

\* C17: in a tick's status update a living avatar whose centre is inside a
\* hazard area owned by another avatar ends the update slowed, silenced, not
\* shielded, not stealthed, not ghosted, with its speed boost cancelled and
\* its shield and stealth cooldowns at least 1000; an avatar inside no
\* foreign area (its own areas included) is not slowed, not silenced, keeps
\* its ghost status and speed boost, and has its cooldowns only counted down.
C17_HazardDebuffs ==
    \A rid \in DOMAIN rooms : \A i \in 1..Len(rooms[rid].players) :
      \A dt \in DtSetGrace, g \in BOOLEAN :
        LET room == rooms[rid]
            now == clock + dt
            areas == ActiveAreas(room, now)
            p == [room.players[i] EXCEPT !.isGhost = g]
            q == StatusUpdate(p, areas, now, dt)
            inside == \E n \in 1..Len(areas) :
                         /\ DistSq(p.position, areas[n]) < 80 * 80
                         /\ areas[n].ownerId # p.id
        IN (room.state = "PLAYING" /\ ~p.isDead) =>
              IF inside
              THEN /\ q.isSlowed /\ q.isSilenced
                   /\ ~q.isShielded /\ ~q.isHidden /\ ~q.isGhost
                   /\ q.speedBoostEndTime = 0
                   /\ q.shieldCooldown >= 1000 /\ q.smokeCooldown >= 1000
              ELSE /\ ~q.isSlowed /\ ~q.isSilenced
                   /\ q.isGhost = g
                   /\ q.speedBoostEndTime = p.speedBoostEndTime
                   /\ q.shieldCooldown = Max(0, p.shieldCooldown - dt)
                   /\ q.smokeCooldown = Max(0, p.smokeCooldown - dt)
                   /\ q.isShielded = (q.shieldCooldown > 17000)
                   /\ q.isHidden = (q.smokeCooldown > 7000)

\* A tick has just left one avatar debuffed inside the active hazard area of
\* another, who stands in the same area untouched.
C17_Witness ==
    \E rid \in DOMAIN rooms : \E p, o \in Avatars(rid) :
      \E n \in 1..Len(rooms[rid].slimeAreas) :
        LET area == rooms[rid].slimeAreas[n]
        IN /\ lastTick = clock
           /\ rooms[rid].state = "PLAYING"
           /\ area.ownerId = o.id /\ o.id # p.id
           /\ ~p.isDead /\ ~o.isDead
           /\ DistSq(p.position, area) < 80 * 80
           /\ DistSq(o.position, area) < 80 * 80
           /\ p.isSlowed /\ p.isSilenced /\ ~p.isShielded /\ ~p.isHidden
           /\ p.shieldCooldown >= 1000 /\ p.smokeCooldown >= 1000
           /\ ~o.isSlowed /\ ~o.isSilenced

\* C18: the ghost status of an avatar ends only when the deadline of its most
\* recent GHOST pickup (5000 ms after it) has passed or a foreign hazard
\* strips it in a tick's status update.
\* Every pickup schedules its own callback and none is cancelled, so the
\* callback of an earlier pickup, also one of an earlier round, clears the
\* status granted by a later one.
C18_GhostEndsAtOwnDeadline ==
    [][\A rid \in DOMAIN rooms :
          rid \in DOMAIN rooms' =>
            \A i \in 1..Len(rooms[rid].players) :
              LET p == rooms[rid].players[i]
                  k == IndexOf(rooms'[rid].players, p.id)
                  stripped ==
                      /\ lastTick' # lastTick
                      /\ \E n \in 1..Len(ActiveAreas(rooms[rid], clock)) :
                            /\ DistSq(p.position, ActiveAreas(rooms[rid], clock)[n]) < 80 * 80
                            /\ ActiveAreas(rooms[rid], clock)[n].ownerId # p.id
              IN (k # 0 /\ p.isGhost /\ ~rooms'[rid].players[k].isGhost) =>
                    \/ clock >= p.ghostUntil
                    \/ stripped]_vars

\* The avatar table with the statuses of `marks` laid over it: each avatar
\* as it is, or dead, or stealthed, or ghosted.
Marks == {"asis", "dead", "hidden", "ghost"}

Marked(players, marks) ==
    [i \in 1..Len(players) |->
        [players[i] EXCEPT
            !.isDead = IF marks[i] = "dead" THEN TRUE ELSE @,
            !.isHidden = IF marks[i] = "hidden" THEN TRUE ELSE @,
            !.isGhost = IF marks[i] = "ghost" THEN TRUE ELSE @]]

\* C19: in a tick's pursuer update a pursuer that is not frozen (or whose
\* freeze has expired) targets a living, non-stealthed, non-ghosted avatar at
\* minimum Euclidean distance from it, and no avatar when there is none; a
\* pursuer whose freeze expiry is in the future keeps its position and its
\* target.
C19_PursuerTargeting ==
    \A rid \in DOMAIN rooms : \A n \in 1..Len(rooms[rid].potatoes) :
      \A dt \in DtSetGrace, hold \in {0, 1} :
        \A marks \in [1..Len(rooms[rid].players) -> Marks] :
          LET now == clock + dt
              room == [rooms[rid] EXCEPT !.players = Marked(@, marks)]
              potato == IF hold = 1
                        THEN [room.potatoes[n] EXCEPT !.isFrozen = TRUE,
                                                      !.freezeEndTime = now + 1]
                        ELSE room.potatoes[n]
              after == UpdatePotato(room, potato, now, dt)
              eligible == {i \in 1..Len(room.players) :
                              /\ ~room.players[i].isDead
                              /\ ~room.players[i].isHidden
                              /\ ~room.players[i].isGhost}
              d(i) == DistSq(room.players[i].position, potato.position)
          IN room.state = "PLAYING" =>
               /\ (potato.isFrozen /\ potato.freezeEndTime > now) =>
                     /\ after.position = potato.position
                     /\ after.targetId = potato.targetId
                     /\ after.isFrozen
               /\ (~potato.isFrozen \/ now > potato.freezeEndTime) =>
                     /\ ~after.isFrozen
                     /\ IF eligible = {}
                        THEN after.targetId = NULL /\ after.position = potato.position
                        ELSE \E i \in eligible :
                                /\ after.targetId = room.players[i].id
                                /\ \A k \in eligible : d(i) <= d(k)

\* A tick has just aimed a pursuer at one avatar while the other, alive, is
\* stealthed.
C19_Witness ==
    \E rid \in DOMAIN rooms : \E q \in Pursuers(rid) : \E p, o \in Avatars(rid) :
        /\ lastTick = clock
        /\ rooms[rid].state = "PLAYING"
        /\ rooms[rid].lastUpdate = clock
        /\ ~q.isFrozen
        /\ q.targetId = p.id
        /\ o.id # p.id /\ ~o.isDead /\ o.isHidden
        /\ ~p.isDead /\ ~p.isHidden /\ ~p.isGhost

\* C20: in every broadcast snapshot each pursuer's targetId is null or the id
\* of an avatar present in the room's avatar table.
\* removePlayer leaves the pursuers alone and a frozen pursuer returns from
\* its update before the target is chosen again, so the id of an avatar that
\* left stays in the snapshots until the freeze ends.
C20_TargetIsPresent ==
    \A rid \in DOMAIN rooms :
        EventsTo(emitted, "game_state", rid) # {} =>
            \A q \in Pursuers(rid) :
                \/ q.targetId = NULL
                \/ \E p \in Avatars(rid) : p.id = q.targetId

(***************************************************************************)
(* The registry: hosts, lifetime of a room, disconnect.                    *)
(***************************************************************************)
MemberIds(room) == SeqToSet(Ids(room.players))

\* The step is the disconnect of connection s.
Disconnects(s) == s \in connected /\ s \notin connected'

\* The events of the last handler are those of a disconnect that left n rooms
\* with members.
DisconnectLeft(n) ==
    /\ Len(emitted) = n + 1
    /\ emitted[n + 1].type = "lobbies_update"
    /\ \A k \in 1..n : emitted[k].type = "room_update"

\* C21: every room of the registry has at least one avatar and its hostId is
\* the id of one of them; when the host leaves a room that keeps members the
\* new host is one of the remaining members, when another member leaves the
\* host is unchanged, and a room whose last member leaves is removed.
C21_HostIsMember ==
    /\ [](\A rid \in DOMAIN rooms :
            /\ Len(rooms[rid].players) >= 1
            /\ rooms[rid].hostId \in MemberIds(rooms[rid]))
    /\ [][\A s \in SocketsRegistry : Disconnects(s) =>
             \A rid \in DOMAIN rooms :
                LET rest == MemberIds(rooms[rid]) \ {s}
                IN s \in MemberIds(rooms[rid]) =>
                     IF rest = {} THEN rid \notin DOMAIN rooms'
                     ELSE /\ rid \in DOMAIN rooms'
                          /\ rooms'[rid].hostId \in rest
                          /\ rooms[rid].hostId # s =>
                                rooms'[rid].hostId = rooms[rid].hostId]_vars

\* The host s1 of a room of three has left: the room remains with s3, which
\* creates no room, as its host and s2 as its other member.
C21_Witness ==
    \E rid \in DOMAIN rooms :
        /\ rooms[rid].leftLog = <<"s1">>
        /\ rooms[rid].hostId = "s3"
        /\ Ids(rooms[rid].players) = <<"s3", "s2">>
        /\ DisconnectLeft(1)

\* C22: a room that has members stays in the registry with those members until
\* the last of them leaves: after any step, every room with a member whose
\* connection is still open is in the registry and still holds each of them.
C22_RoomsPersist ==
    [][\A rid \in DOMAIN rooms :
          LET stay == MemberIds(rooms[rid]) \cap connected'
          IN stay # {} =>
               /\ rid \in DOMAIN rooms'
               /\ stay \subseteq MemberIds(rooms'[rid])]_vars

\* C23: the disconnect of a connection removes its avatar from every room that
\* holds it, keeps the other avatars of those rooms in their order, and leaves
\* every room that does not hold it as it is, registry entry included.
C23_DisconnectFrame ==
    [][\A s \in SocketsRegistry : Disconnects(s) =>
          /\ \A rid \in DOMAIN rooms' : s \notin MemberIds(rooms'[rid])
          /\ \A rid \in DOMAIN rooms :
                IF s \in MemberIds(rooms[rid])
                THEN MemberIds(rooms[rid]) # {s} =>
                       /\ rid \in DOMAIN rooms'
                       /\ Ids(rooms'[rid].players) =
                            SelectSeq(Ids(rooms[rid].players), LAMBDA id : id # s)
                ELSE /\ rid \in DOMAIN rooms'
                     /\ rooms'[rid] = rooms[rid]]_vars

\* s1 has disconnected while it was an avatar of R1 and of no other room: R1
\* goes on without it, and R2, a started room of s2 and s3 that nobody ever
\* left, is there as before.
C23_Witness ==
    /\ DOMAIN rooms = {"R1", "R2"}
    /\ "s1" \notin connected
    /\ rooms["R1"].leftLog = <<"s1">>
    /\ rooms["R2"].leftLog = <<>>
    /\ rooms["R2"].state = "PLAYING"
    /\ Ids(rooms["R2"].players) = <<"s2", "s3">>
    /\ DisconnectLeft(2)

(***************************************************************************)
(* Snapshots.                                                              *)
(***************************************************************************)
SnapshotFields == {"players", "potatoes", "obstacles", "powerups", "slimeAreas"}

\* C24: every game_state event the server emits, the one of each tick of a
\* PLAYING room included, carries the five fields players, potatoes,
\* obstacles, powerups and slimeAreas.
C24_SnapshotHasFiveFields ==
    \A k \in Emitted("game_state") : emitted[k].data = SnapshotFields

(***************************************************************************)
(* Cooldown ranges.                                                        *)
(***************************************************************************)
\* C25: each of an avatar's four cooldowns lies between 0 and the maximum of
\* its ability (dash 8000, shield 20000, stealth 12000, hazard 15000) in every
\* state, whatever ticks, activations, respawns, hazard floors and
\* cooldown-reset pickups have happened.
C25_CooldownsInRange ==
    \A rid \in DOMAIN rooms : \A p \in Avatars(rid) :
        /\ 0 <= p.dashCooldown /\ p.dashCooldown <= 8000
        /\ 0 <= p.shieldCooldown /\ p.shieldCooldown <= 20000
        /\ 0 <= p.smokeCooldown /\ p.smokeCooldown <= 12000
        /\ 0 <= p.slimeCooldown /\ p.slimeCooldown <= 15000

\* After the reset pickup was collected, s1 has lost a life, stands silenced
\* in the hazard area of s2 with its stealth cooldown on the floor, and s2's
\* hazard cooldown is running.
C25_Witness ==
    /\ spawned = 1
    /\ \E rid \in DOMAIN rooms :
          /\ rooms[rid].powerups = <<>>
          /\ \E p, o \in Avatars(rid) :
                /\ p.id = "s1" /\ o.id = "s2"
                /\ p.lives < MAX_LIVES
                /\ p.isSilenced
                /\ p.smokeCooldown = SLIME_FLOOR
                /\ o.slimeCooldown > 0 /\ o.slimeCooldown < SLIME_COOLDOWN

(***************************************************************************)
(* The shield granted by a respawn.                                        *)
(***************************************************************************)
\* The contacts of the room's last tick in which the avatar lost a life.
LifeLost(rid) ==
    {k \in 1..Len(rooms[rid].contactLog) :
        rooms[rid].contactLog[k].livesAfter < rooms[rid].contactLog[k].livesBefore}

\* C26: after a hit that was followed by a respawn the avatar loses no life to
\* a pursuer contact for 3000 ms, counted from the hit itself, as long as the
\* shield cooldown set by the hit runs untouched (no cooldown-reset pickup) and
\* the avatar is not silenced by a foreign hazard.
C26_ShieldAfterHit ==
    \A rid \in DOMAIN rooms : \A k \in LifeLost(rid) :
        LET e == rooms[rid].contactLog[k]
            since == rooms[rid].lastUpdate - e.hitAt
        IN ~(/\ e.hitAt >= 0
             /\ since < SHIELD_COOLDOWN - SHIELD_ACTIVE_ABOVE
             /\ e.shieldCooldown = SHIELD_COOLDOWN - since
             /\ ~e.silenced)

(***************************************************************************)
(* The win check and the eliminations of the same tick.                    *)
(***************************************************************************)
\* The contacts of the room's last tick that eliminated an avatar.
Fatal(rid) ==
    {k \in LifeLost(rid) : rooms[rid].contactLog[k].livesAfter <= 0}

\* C27: past the grace period, a tick whose eliminations leave exactly one
\* living avatar reports game over with that avatar as the winner: it does
\* not broadcast a snapshot of the room instead.
C27_WinSeesSameTick ==
    \A rid \in DOMAIN rooms :
        (/\ Fatal(rid) # {}
         /\ AliveCount(rooms[rid].players) = 1
         /\ GraceOver(rooms[rid], rooms[rid].lastUpdate)
         /\ EventsTo(emitted, "game_state", rid) \cup
               EventsTo(emitted, "game_over", rid) # {})
        => \E k \in EventsTo(emitted, "game_over", rid) :
              emitted[k].data.winnerId = PotentialWinner(rooms[rid].players)

(***************************************************************************)
(* Movement.  The claims are about the avatar loop and the separation loop *)
(* of update(): they are stated of what these do to a room on which a tick *)
(* is due, at the time of that tick.                                       *)
(***************************************************************************)
\* The rooms on which a tick would run now, over a positive time step.
TickDue ==
    {rid \in DOMAIN rooms :
        /\ rooms[rid].state = "PLAYING"
        /\ lastTick < clock
        /\ clock > rooms[rid].lastUpdate}

\* The avatar i of room rid after its own part of the avatar loop.
Moved(rid, i) ==
    UpdatePlayer(rooms[rid], i, clock, clock - rooms[rid].lastUpdate).players[i]

\* On an axis at distance d from `from`: the point reached by going `step`
\* toward `to`, or `to` itself when it is nearer than that.
Toward(from, to, step) ==
    LET dx == to.x - from.x
        dy == to.y - from.y
        d == Abs(dx) + Abs(dy)
    IN IF d < step THEN to
       ELSE Pt(from.x + (IF dx > 0 THEN step ELSE IF dx < 0 THEN -step ELSE 0),
               from.y + (IF dy > 0 THEN step ELSE IF dy < 0 THEN -step ELSE 0))

\* For a living avatar whose target lies on an axis at a distance above
\* `least`, and whose step is blocked by nothing: it advances speed * dt toward
\* the target, or lands on it when it is nearer than speed * dt.
AxisStep(least) ==
    \A rid \in TickDue : \A i \in 1..Len(rooms[rid].players) :
        LET p == rooms[rid].players[i]
            q == Moved(rid, i)
            dx == p.input.x - p.position.x
            dy == p.input.y - p.position.y
            d == Abs(dx) + Abs(dy)
            step == (q.speed * (clock - rooms[rid].lastUpdate)) \div 1000
            goal == Toward(p.position, p.input, step)
        IN (/\ ~p.isDead
            /\ (dx = 0 \/ dy = 0)
            /\ d > least
            /\ IsPositionValid(goal.x, goal.y, PLAYER_RADIUS, rooms[rid].obstacles))
           => q.position = goal

\* C28 as stated: the rule for every distance d > 0.
C28_AxisStepAnyDistance == AxisStep(0)

\* C28: for a living avatar whose step is blocked by no obstacle or boundary
\* and whose target lies along an axis at distance d > 5: if d >= speed * dt
\* it advances exactly speed * dt toward the target, if d < speed * dt it lands
\* exactly on the target; at a distance of 5 or less it stays where it is.
C28_AxisStep ==
    /\ AxisStep(5)
    /\ \A rid \in TickDue : \A i \in 1..Len(rooms[rid].players) :
          LET p == rooms[rid].players[i]
          IN DistSq(p.input, p.position) <= 25 =>
                Moved(rid, i).position = p.position

\* A tick of one second has just moved an avatar that pointed at (500, 100),
\* 400 pixels along the X axis from (100, 100), by its step of 250.
C28_Witness ==
    \E rid \in DOMAIN rooms : \E p \in Avatars(rid) :
        /\ lastTick = clock
        /\ rooms[rid].lastUpdate = clock
        /\ ~p.isDead
        /\ p.input = Pt(500, 100)
        /\ p.position = Pt(350, 100)


\* The step vector the avatar loop computes for avatar i of room rid.
StepOf(rid, i) ==
    LET dt == clock - rooms[rid].lastUpdate
    IN StepVector(StatusUpdate(rooms[rid].players[i], rooms[rid].slimeAreas,
                               clock, dt), dt)

Clear(rid, x, y) == IsPositionValid(x, y, PLAYER_RADIUS, rooms[rid].obstacles)

\* C29: move-and-slide resolves the axes one after the other.  A step whose X
\* component leads to an invalid position leaves X as it is, and its Y
\* component is still applied if it is valid on its own; when X is accepted, Y
\* is tested at the new X; a rejected Y leaves the accepted X in place.
C29_AxesIndependent ==
    \A rid \in TickDue : \A i \in 1..Len(rooms[rid].players) :
        LET p == rooms[rid].players[i]
            v == StepOf(rid, i)
            to == Moved(rid, i).position
            x == p.position.x
            y == p.position.y
        IN ~p.isDead /\ v.x # 0 /\ v.y # 0 =>
             /\ ~Clear(rid, x + v.x, y) =>
                   /\ to.x = x
                   /\ to.y = IF Clear(rid, x, y + v.y) THEN y + v.y ELSE y
             /\ Clear(rid, x + v.x, y) =>
                   /\ to.x = x + v.x
                   /\ to.y = IF Clear(rid, x + v.x, y + v.y) THEN y + v.y ELSE y

\* A tick has just moved an avatar that pointed from (770, 300) at (870, 200):
\* its X step was made and its Y step, clear at the old X and inside the
\* obstacle at the new one, was refused.  It had come to (770, 300) from its
\* spawn point (790, 100) by a step whose X component was refused.
C29_Witness ==
    \E rid \in DOMAIN rooms : \E q \in Avatars(rid) :
        /\ lastTick = clock
        /\ rooms[rid].lastUpdate = clock
        /\ ~q.isDead
        /\ q.lives = MAX_LIVES
        /\ q.input = Pt(870, 200)
        /\ q.position = Pt(870, 300)

\* The room rid after the avatar loop and after the separation loop of a tick
\* run now.
AfterMove(rid) ==
    UpdatePlayers(rooms[rid], 1, clock, clock - rooms[rid].lastUpdate)

AfterSeparation(rid) == SeparateAll(AfterMove(rid), 1, 2)

\* The pairs of living, non-ghost avatars that overlap after the avatar loop.
Overlapping(rid) ==
    LET ps == AfterMove(rid).players
    IN {pair \in (1..Len(ps)) \X (1..Len(ps)) :
          /\ pair[1] < pair[2]
          /\ ~ps[pair[1]].isDead /\ ~ps[pair[2]].isDead
          /\ ~ps[pair[1]].isGhost /\ ~ps[pair[2]].isGhost
          /\ DistSq(ps[pair[1]].position, ps[pair[2]].position) > 0
          /\ DistSq(ps[pair[1]].position, ps[pair[2]].position) <
                (2 * PLAYER_RADIUS) * (2 * PLAYER_RADIUS)}

\* C30: an avatar that is in bounds and clear of every obstacle before a tick
\* is so after its move-and-slide step and after the pushes of the separation
\* loop of that tick.
C30_MoveKeepsValid ==
    \A rid \in TickDue : \A i \in 1..Len(rooms[rid].players) :
        LET before == rooms[rid].players[i].position
            moved == AfterMove(rid).players[i].position
            pushed == AfterSeparation(rid).players[i].position
        IN Clear(rid, before.x, before.y) =>
             /\ Clear(rid, moved.x, moved.y)
             /\ Clear(rid, pushed.x, pushed.y)

\* A tick has just moved s1 onto its target (740, 200) and s2 onto its target
\* (770, 200), 30 pixels apart: s1 was pushed 10 pixels to the left, the push
\* of s2 to the right, into the obstacle's margin, was refused.
C30_Witness ==
    \E rid \in DOMAIN rooms : \E p, q \in Avatars(rid) :
        /\ lastTick = clock
        /\ rooms[rid].lastUpdate = clock
        /\ ~p.isDead /\ ~p.isGhost /\ ~q.isDead /\ ~q.isGhost
        /\ p.input = Pt(740, 200) /\ p.position = Pt(730, 200)
        /\ q.input = Pt(770, 200) /\ q.position = Pt(770, 200)

(***************************************************************************)
(* Pickups                                                                 *)
(***************************************************************************)
\* The number of pickups of room rid in the registry rs (0 when it has none).
PickupCount(rs, rid) == IF rid \in DOMAIN rs THEN Len(rs[rid].powerups) ELSE 0

\* C31: a room never holds more than 5 pickups, and a pickup is created only
\* by a tick of a room that is PLAYING before and after it and whose round has
\* not ended; in every other step, and in every room that is WAITING, the
\* number of pickups does not grow.
C31_PickupsCapped ==
    /\ [](\A rid \in DOMAIN rooms : Len(rooms[rid].powerups) <= 5)
    /\ [][/\ spawned' > spawned =>
               /\ lastTick' = clock /\ lastTick # clock
               /\ \E rid \in DOMAIN rooms :
                     /\ rooms[rid].state = "PLAYING" /\ ~rooms[rid].gameEnded
                     /\ rooms'[rid].state = "PLAYING" /\ ~rooms'[rid].gameEnded
           /\ \A rid \in DOMAIN rooms' :
                 PickupCount(rooms', rid) > PickupCount(rooms, rid) =>
                     /\ spawned' > spawned
                     /\ rooms[rid].state = "PLAYING"]_vars

\* Five pickups lie in a room whose tick has just run without creating a
\* sixth, although the random source offered one.
C31_Witness ==
    \E rid \in DOMAIN rooms :
        /\ Len(rooms[rid].powerups) = 5
        /\ rooms[rid].state = "PLAYING"
        /\ lastTick = clock
        /\ rooms[rid].lastUpdate = clock
        /\ spawned = 5
        /\ \A k \in 1..5 : rooms[rid].powerups[k].spawnTime < clock

(***************************************************************************)
(* The path search                                                         *)
(***************************************************************************)
\* The waypoint is the centre of a grid cell that no obstacle overlaps.
FreeCentre(w, obstaclesRef) ==
    /\ w = CellCentre(GetGridPos(w))
    /\ ~CellBlocked(GetGridPos(w).x, GetGridPos(w).y, obstaclesRef)

\* Two different cells that touch by a side or a corner.
Adjacent8(a, b) == a # b /\ Abs(a.x - b.x) <= 1 /\ Abs(a.y - b.y) <= 1

\* A waypoint sequence from the cell of `from` to the cell of `to`.
CellPath(path, from, to, obstaclesRef) ==
    /\ Len(path) >= 1
    /\ \A k \in 1..Len(path) : FreeCentre(path[k], obstaclesRef)
    /\ Adjacent8(GetGridPos(from), GetGridPos(path[1]))
    /\ \A k \in 1..(Len(path) - 1) : Adjacent8(GetGridPos(path[k]), GetGridPos(path[k + 1]))
    /\ GetGridPos(path[Len(path)]) = GetGridPos(to)

\* The cell of the target is blocked, so that no search can reach it.
TargetBlocked ==
    CellBlocked(GetGridPos(cli.target).x, GetGridPos(cli.target).y, cli.obstaclesRef)

\* The search has used its budget and the goal is not on its open list.
BudgetUsedUp ==
    /\ cli.search.iterations = 300
    /\ \A k \in 1..Len(cli.search.openSet) :
          GetGridPos(cli.target) # Pt(cli.search.openSet[k].x, cli.search.openSet[k].y)

\* C32: the path search never makes more than 300 expansions, and its result
\* is either a sequence of centres of non-blocked cells, each 8-adjacent to the
\* one before it, that ends in the target's cell, or the target position
\* alone; it is the target position alone when the budget is used up without
\* the goal being reached and when the target's cell is blocked.
C32_PathUsable ==
    /\ cli.search.iterations <= 300
    /\ cli.phase = "done" =>
          /\ \/ CellPath(cli.currentPath, cli.position, cli.target, cli.obstaclesRef)
             \/ cli.currentPath = <<cli.target>>
          /\ (TargetBlocked \/ BudgetUsedUp) => (cli.currentPath = <<cli.target>>)

\* A search from (700, 150) to (1060, 150), on either side of an obstacle, has
\* returned a cell path of more than seven waypoints within its budget.
C32_Witness ==
    /\ cli.phase = "done"
    /\ cli.position = Pt(700, 150) /\ cli.target = Pt(1060, 150)
    /\ Len(cli.currentPath) > 7
    /\ cli.search.iterations > 7 /\ cli.search.iterations < 300
    /\ CellPath(cli.currentPath, cli.position, cli.target, cli.obstaclesRef)

(***************************************************************************)
(* The client's input messages                                             *)
(***************************************************************************)
\* C33: the latest two input messages of the client were sent at least 50 ms
\* apart.
\* handleKeyDown emits an input message at once for every key press and
\* neither consults nor sets lastInputTimeRef: the statement fails.
C33_InputThrottled == cli.sentGap = -1 \/ cli.sentGap >= 50

(***************************************************************************)
(* Membership                                                              *)
(***************************************************************************)
\* The rooms whose avatar table holds an avatar of connection s.
RoomsWith(s) == {rid \in DOMAIN rooms : s \in MemberIds(rooms[rid])}

\* C34: every connection has an avatar in at most one room, and that room is
\* the one its commands address.
\* create_room and join_room do not test whether the connection is in a room
\* already: the statement fails.
C34_OneRoomPerConnection ==
    \A s \in SocketsRegistry :
        /\ Cardinality(RoomsWith(s)) <= 1
        /\ RoomsWith(s) # {} => RoomsWith(s) = {RoomOf(s)}

(***************************************************************************)
(* Inputs of eliminated avatars                                            *)
(***************************************************************************)
\* The hazard areas of the room that avatar id laid.
AreasOf(room, id) == SelectSeq(room.slimeAreas, LAMBDA sl : sl.ownerId = id)

\* C35: no step changes a cooldown of an avatar that is dead before and after
\* it, and no step adds a hazard area laid by such an avatar.
\* handleInput does not test isDead: the key of a dead avatar whose cooldown
\* has run out starts the cooldown and lays the area, and the statement fails.
C35_DeadCannotActivate ==
    [][\A rid \in DOMAIN rooms \cap DOMAIN rooms' :
         \A i \in 1..Len(rooms[rid].players) :
            LET p == rooms[rid].players[i]
                j == IndexOf(rooms'[rid].players, p.id)
            IN (p.isDead /\ j # 0 /\ rooms'[rid].players[j].isDead) =>
                  /\ Cooldowns(rooms'[rid].players[j]) = Cooldowns(p)
                  /\ Len(AreasOf(rooms'[rid], p.id)) <= Len(AreasOf(rooms[rid], p.id))]_vars

(***************************************************************************)
(* Collection of pickups                                                   *)
(***************************************************************************)
\* C36: among the pickups the last tick gave to avatars no pickup was given
\* twice: each collected pickup has one collector.
\* The filter of checkCollisions goes through every living avatar for each
\* pickup and rewards each one that touches it: the statement fails.
C36_OneCollector ==
    \A rid \in DOMAIN rooms :
        \A a, b \in 1..Len(rooms[rid].collectLog) :
            rooms[rid].collectLog[a].pickup = rooms[rid].collectLog[b].pickup => a = b

(***************************************************************************)
(* Effects across rounds                                                   *)
(***************************************************************************)
\* C37: in a round a tick has just reported, an avatar that is a ghost collected
\* its latest GHOST pickup in this round, and an avatar that moves faster than
\* the base speed got its boost in this round.
\* startGame resets neither isGhost nor speed nor speedBoostEndTime: the
\* statement fails.
C37_NoCarryOver ==
    \A rid \in DOMAIN rooms :
        (rooms[rid].state = "PLAYING" /\ EventsTo(emitted, "game_state", rid) # {}) =>
            \A p \in Avatars(rid) :
                /\ p.isGhost => p.ghostUntil - GHOST_MS >= rooms[rid].startTime
                /\ p.speed > BASE_SPEED =>
                      \/ p.speedBoostEndTime - DASH_DURATION >= rooms[rid].startTime
                      \/ p.speedBoostEndTime - SPEED_PICKUP_MS >= rooms[rid].startTime

(***************************************************************************)
(* The lobby list                                                          *)
(***************************************************************************)
\* C38: a step that changes what getActiveLobbies returns broadcasts a
\* lobbies_update, and the last one it broadcasts carries the new list; so the
\* most recent lobbies_update always agrees with the registry.
\* The tick driver sets a room back to WAITING after game_over without a
\* broadcast: the statement fails.
C38_LobbiesAgree ==
    [][GetActiveLobbies(rooms', roomOrder') # GetActiveLobbies(rooms, roomOrder) =>
          \E k \in 1..Len(emitted') :
              /\ emitted'[k].type = "lobbies_update"
              /\ emitted'[k].data = GetActiveLobbies(rooms', roomOrder')
              /\ \A j \in (k + 1)..Len(emitted') : emitted'[j].type # "lobbies_update"]_vars

\* C39: every game_over names as winnerId an avatar that is in the room's
\* avatar table at the moment the event is emitted, never a departed
\* connection and never no avatar at all.
C39_WinnerInRoom ==
    \A e \in GameOverEvents :
        /\ e.data.winnerId # NULL
        /\ IndexOf(rooms[e.to].players, e.data.winnerId) # 0

\* C40: a start_game received from the host of a room whose round is running
\* (state PLAYING) leaves that room, and with it the running round, as it was.
C40_StartIgnoredWhilePlaying ==
    [][\A s \in Sockets : \A spawns \in SpawnChoices(s) :
          (/\ RoomOf(s) # NULL
           /\ RoomOf(s) \in DOMAIN rooms
           /\ rooms[RoomOf(s)].state = "PLAYING"
           /\ StartGame(s, spawns))
          => rooms'[RoomOf(s)] = rooms[RoomOf(s)]]_vars

=========================================================================
